---- MODULE Spec2Model ----
(***************************************************************************)
(* State-machine model of the shared VFS directory cache core              *)
(* (lib/vfs/direntry.c): inodes, entries, superblocks, the tree and the    *)
(* linear (remote) path resolver, the symlink follower, directory and      *)
(* file handles, the freshness check and the superblock invalidation.      *)
(*                                                                         *)
(* Memory is an arena: inode, entry and superblock ids index records with  *)
(* a `live` flag.  A freed record keeps its last contents (free() does not *)
(* scrub memory) for as long as some pointer still refers to it, so that a *)
(* use of a dangling pointer can be told apart and given its outcomes:     *)
(* the stale read/write ("uaf") or the crash ("segv").  After undefined    *)
(* behaviour or a fatal assertion ("die") the program makes no more steps. *)
(*                                                                         *)
(* Paths are sequences of segments, "a/b" is <<"a","b">> and "" is <<>>;   *)
(* a leading "/" of a link target is the segment "/".                      *)
(*                                                                         *)
(* A C function is an operator from the machine state `m` (and its         *)
(* arguments) to the machine state after it (and its result); where a C    *)
(* function goes on with the result of a call, the rest of its body is an  *)
(* operator of that result.                                                *)
(***************************************************************************)
EXTENDS Integers, Sequences, FiniteSets, TLC

\* ---- bounds of the model ------------------------------------------------
MaxIno == 6
MaxEnt == 4
MaxSup == 2
MaxHandles == 2
MaxTime == 1
MaxData == 2
MaxChunks == 2
\* The hop budget of a followed lookup (LINK_FOLLOW in xdirentry.h); kept
\* small here, the resolver only counts it down.
LINK_FOLLOW == 2
\* The lifetime a loaded remote directory is given (its timestamp is the
\* load time plus this).
TTL == 1
\* The size of a file (st_size), as the hooks report it.
FileSize == 2

\* ---- program constants --------------------------------------------------
LINK_NO_FOLLOW == -1
NULL == 0

InoIds == 1..MaxIno
EntIds == 1..MaxEnt
SupIds == 1..MaxSup

VARIABLES
    cls,      \* the class: [remote, file_store, linear, rootlink, write]
    ino,      \* [0..MaxIno -> inode record]        struct vfs_s_inode
    ent,      \* [0..MaxEnt -> entry record]        struct vfs_s_entry
    sup,      \* [0..MaxSup -> superblock record]   struct vfs_s_super
    supers,   \* MEDATA->supers, a sequence of superblock ids
    flush,    \* MEDATA->flush
    verrno,   \* me->verrno
    fhs,      \* open file handles, a sequence of vfs_file_handler_t
    dhs,      \* open directory handles, a sequence of struct dirhandle
    now,      \* the wall clock, in seconds
    fault,    \* "none", "uaf", "segv" or "die"
    last,     \* what the last operation did (history, read by the properties)
    lk        \* one path lookup run step by step (LookupSpec)

vars == <<cls, ino, ent, sup, supers, flush, verrno, fhs, dhs, now, fault, last, lk>>

\* super->name before open_archive filled it
NoName == ""

DeadIno == [live |-> FALSE, nlink |-> 0, mode |-> "none", subdir |-> <<>>,
            ent |-> NULL, super |-> NULL, linkname |-> <<>>,
            localname |-> FALSE, timestamp |-> 0, data |-> <<>>]
DeadEnt == [live |-> FALSE, name |-> <<>>, ino |-> NULL, dir |-> NULL]
DeadSup == [live |-> FALSE, root |-> NULL, ino_usage |-> 0, fd_usage |-> 0,
            want_stale |-> FALSE, stamp |-> FALSE, name |-> NoName]

Min(S) == CHOOSE x \in S : \A y \in S : x <= y

\* g_list_remove (one pointer occurs once in a list)
SeqRemove(s, x) == SelectSeq(s, LAMBDA y : y /= x)

RemoveAt(s, k) == [j \in 1..(Len(s) - 1) |-> IF j < k THEN s[j] ELSE s[j + 1]]

\* ---- the machine state threaded through one operation --------------------
\* The part of the state the C functions read and write, plus the inputs of
\* the operation (the answers of the subclass hooks) and its trace: `fault`
\* is how the run ended early ("null": a NULL dereference, "die": vfs_die),
\* `uaf` that it used freed memory, `oom` that it asked for more records
\* than the arena holds, `loads` the paths dir_load was called for, `upt` the
\* calls of vfs_s_dir_uptodate, `calls` the calls of the other hooks.
Mach(in) == [ino |-> ino, ent |-> ent, sup |-> sup, supers |-> supers,
             flush |-> flush, verrno |-> verrno, fault |-> "none",
             uaf |-> FALSE, oom |-> FALSE, now |-> now, cls |-> cls, in |-> in,
             loads |-> <<>>, upt |-> <<>>, calls |-> <<>>]

\* a hook or a host call is put down in the trace of the operation
Call(m, hook, arg) == [m EXCEPT !.calls = Append(@, [hook |-> hook, arg |-> arg])]

\* A dereference: of NULL, of freed memory, or of a live object.
Touch(m, isNull, isLive) ==
    IF m.fault /= "none" THEN m
    ELSE IF isNull THEN [m EXCEPT !.fault = "null"]
    ELSE IF isLive THEN m
    ELSE [m EXCEPT !.uaf = TRUE]

TouchIno(m, i) == Touch(m, i = NULL, m.ino[i].live)
TouchSup(m, s) == Touch(m, s = NULL, m.sup[s].live)

\* vfs_die
Die(m) == IF m.fault /= "none" THEN m ELSE [m EXCEPT !.fault = "die"]

\* ERRNOR: me->verrno = e
SetErr(m, e) == [m EXCEPT !.verrno = e]

\* ---- 4.A inode / entry store ---------------------------------------------

\* vfs_s_new_inode: nlink 0, counted in the superblock's ino_usage.
NewInode(m, s, mode) ==
    LET free == {i \in InoIds : m.ino[i] = DeadIno} IN
    IF free = {} THEN [m |-> [m EXCEPT !.oom = TRUE], ino |-> NULL]
    ELSE [m |-> [TouchSup(m, s) EXCEPT !.ino[Min(free)] =
                                           [DeadIno EXCEPT !.live = TRUE,
                                                           !.mode = mode,
                                                           !.super = s,
                                                           !.nlink = 0],
                                       !.sup[s].ino_usage = @ + 1],
          ino |-> Min(free)]

\* vfs_s_new_entry: the inode's named-by pointer is set to the new entry.
NewEntry(m, name, i) ==
    LET free == {e \in EntIds : m.ent[e] = DeadEnt} IN
    IF free = {} \/ i = NULL THEN [m |-> [m EXCEPT !.oom = TRUE], ent |-> NULL]
    ELSE [m |-> [TouchIno(m, i) EXCEPT !.ent[Min(free)] =
                                           [live |-> TRUE, name |-> name,
                                            ino |-> i, dir |-> NULL],
                                       !.ino[i].ent = Min(free)],
          ent |-> Min(free)]

\* vfs_s_insert_entry
InsertEntry(m, d, e) ==
    IF e = NULL THEN m
    ELSE [TouchIno(TouchIno(m, d), m.ent[e].ino)
             EXCEPT !.ent[e].dir = d,
                    !.ino[m.ent[e].ino].nlink = @ + 1,
                    !.ino[d].subdir = Append(@, e)]

\* vfs_s_insert_entry of an entry just made: [m, ent]
InsertNew(g, d) == [m |-> InsertEntry(g.m, d, g.ent), ent |-> g.ent]

\* vfs_s_new_entry for the inode just made
NewEntryOf(r, name) == NewEntry(r.m, name, r.ino)

\* vfs_s_generate_entry
GenerateEntry(m, name, parent, mode) ==
    NewEntryOf(NewInode(TouchIno(m, parent), m.ino[parent].super, mode), name)

RECURSIVE FreeInode(_, _), FreeEntry(_, _), FreeSubdir(_, _)

\* vfs_s_free_entry, up to the release of its inode
UnlinkEntry(m, e) ==
    IF m.ent[e].dir /= NULL
    THEN [TouchIno(m, m.ent[e].dir)
             EXCEPT !.ino[m.ent[e].dir].subdir = SeqRemove(@, e)]
    ELSE m

\* vfs_s_free_entry, the release of its inode
DropEntryIno(m, e) ==
    IF m.ent[e].ino /= NULL
    THEN FreeInode([TouchIno(m, m.ent[e].ino)
                       EXCEPT !.ino[m.ent[e].ino].ent = NULL],
                   m.ent[e].ino)
    ELSE m

\* vfs_s_free_entry
FreeEntry(m, e) == [DropEntryIno(UnlinkEntry(m, e), e) EXCEPT !.ent[e] = DeadEnt]

\* the loop of vfs_s_free_inode over the children
FreeSubdir(m, i) ==
    IF m.ino[i].subdir = <<>> THEN m
    ELSE FreeSubdir(FreeEntry(m, Head(m.ino[i].subdir)), i)

\* the end of vfs_s_free_inode: the inode is released
DestroyInode(m, i) ==
    [TouchSup(m, m.ino[i].super) EXCEPT !.ino[i].live = FALSE,
                                         !.sup[m.ino[i].super].ino_usage = @ - 1]

\* vfs_s_free_inode: one reference less; the inode is destroyed, with its
\* children, when nlink is not above 1.
FreeInode(m, i) ==
    IF i = NULL THEN Die(m)
    ELSE IF m.ino[i].nlink > 1
    THEN [TouchIno(m, i) EXCEPT !.ino[i].nlink = @ - 1]
    ELSE DestroyInode(FreeSubdir(TouchIno(m, i), i), i)

\* ---- 4.H freshness and invalidation --------------------------------------

\* vfs_s_dir_uptodate without MEDATA->flush = 0 (a variant the properties
\* must tell from the code)
DirUptodateKeepsFlag(m, i) ==
    IF m.flush
    THEN [m |-> [m EXCEPT !.upt = Append(@, [flush |-> TRUE, after |-> m.flush,
                                             now |-> m.now,
                                             ts |-> m.ino[i].timestamp,
                                             res |-> FALSE])],
          ok |-> FALSE]
    ELSE [m |-> [TouchIno(m, i)
                    EXCEPT !.upt = Append(@, [flush |-> FALSE, after |-> m.flush,
                                              now |-> m.now,
                                              ts |-> m.ino[i].timestamp,
                                              res |-> m.now < m.ino[i].timestamp])],
          ok |-> m.now < m.ino[i].timestamp]

\* vfs_s_dir_uptodate: [m, ok]; the call is put down in m.upt with the flag
\* before and after it, the clock, the timestamp read and the answer.
DirUptodate(m, i) ==
    IF m.flush
    THEN [m |-> [m EXCEPT !.flush = FALSE,
                          !.upt = Append(@, [flush |-> TRUE, after |-> FALSE,
                                             now |-> m.now,
                                             ts |-> m.ino[i].timestamp,
                                             res |-> FALSE])],
          ok |-> FALSE]
    ELSE [m |-> [TouchIno(m, i)
                    EXCEPT !.upt = Append(@, [flush |-> FALSE, after |-> m.flush,
                                              now |-> m.now,
                                              ts |-> m.ino[i].timestamp,
                                              res |-> m.now < m.ino[i].timestamp])],
          ok |-> m.now < m.ino[i].timestamp]

\* super->root = the inode just made
SetRoot(r, s) == [r.m EXCEPT !.sup[s].root = r.ino]

\* vfs_s_invalidate without the test of want_stale (a variant the properties
\* must tell from the code)
InvalidateAlways(m, s) ==
    SetRoot(NewInode(FreeInode(TouchSup(m, s), m.sup[s].root), s, "dir"), s)

\* vfs_s_invalidate
Invalidate(m, s) ==
    IF m.sup[s].want_stale THEN TouchSup(m, s)
    ELSE SetRoot(NewInode(FreeInode(TouchSup(m, s), m.sup[s].root), s, "dir"), s)

\* ---- subclass hooks (their contract, section 6 of the specification) ------

\* The listing a remote directory load yields: the directory "d" holds the
\* file "f", every other directory is empty.
Listing(path) == IF path = <<"d">> THEN <<"f">> ELSE <<>>

RECURSIVE AddChildren(_, _, _)
\* the hook fills a directory: vfs_s_generate_entry and vfs_s_insert_entry
\* for each name
AddChildren(m, d, names) ==
    IF names = <<>> THEN m
    ELSE AddChildren(InsertNew(GenerateEntry(m, <<Head(names)>>, d, "reg"), d).m,
                     d, Tail(names))

\* dir_load(me, ino, path): fills the directory and sets its expiry, or fails
\* with -1; the input in.load decides.
DirLoad(m, i, path) ==
    IF m.in.load = "fail"
    THEN [m |-> [m EXCEPT !.loads = Append(@, path)], rc |-> -1]
    ELSE [m |-> AddChildren([m EXCEPT !.loads = Append(@, path),
                                      !.ino[i].timestamp = m.now + TTL],
                            i, Listing(path)),
          rc |-> 0]

\* the tree of an archive: root/d/f
ArchiveFile(g) ==
    IF g.ent = NULL THEN g.m ELSE AddChildren(g.m, g.m.ent[g.ent].ino, <<"f">>)

ArchiveTree(m, root) ==
    ArchiveFile(InsertNew(GenerateEntry(m, <<"d">>, root, "dir"), root))

\* open_archive, after it made the root inode
ArchiveRoot(r, s) ==
    IF r.ino = NULL THEN r.m
    ELSE IF r.m.cls.remote
    THEN [r.m EXCEPT !.sup[s].root = r.ino, !.ino[r.ino].nlink = r.m.cls.rootlink]
    ELSE ArchiveTree([r.m EXCEPT !.sup[s].root = r.ino,
                                 !.ino[r.ino].nlink = r.m.cls.rootlink],
                     r.ino)

\* open_archive(me, super, name, op): sets super->root (and the name); an
\* archive class loads its whole tree, root/d/f, a remote class nothing.
\* The root is made by vfs_s_new_inode; an archive class keeps a reference
\* of its own on it (cls.rootlink).
OpenArchive(m, s, name) ==
    IF m.in.arch = "fail" THEN [m |-> Call(m, "open_archive", name), rc |-> -1]
    ELSE [m |-> ArchiveRoot(NewInode([Call(m, "open_archive", name)
                                         EXCEPT !.sup[s].name = name], s, "dir"), s),
          rc |-> 0]

\* ---- 4.B superblock registry ---------------------------------------------

\* vfs_s_free_super, the release of the root
FreeRoot(m, s) ==
    IF m.sup[s].root /= NULL
    THEN [FreeInode(TouchSup(m, s), m.sup[s].root) EXCEPT !.sup[s].root = NULL]
    ELSE TouchSup(m, s)

\* vfs_s_free_super
FreeSuper(m, s) ==
    [FreeRoot(m, s) EXCEPT !.supers = SeqRemove(@, s), !.sup[s].live = FALSE]

\* vfs_s_get_path_mangle that puts the new superblock into the list also when
\* open_archive failed (a variant the properties must tell from the code)
OpenedKeeps(o, s) ==
    IF o.rc = -1
    THEN [m |-> SetErr([o.m EXCEPT !.supers = <<s>> \o @], "EIO"),
          ok |-> FALSE, super |-> NULL]
    ELSE [m |-> [o.m EXCEPT !.supers = <<s>> \o @, !.sup[s].stamp = TRUE],
          ok |-> TRUE, super |-> s]

\* vfs_s_get_path_mangle after open_archive answered
Opened(o, s) ==
    IF o.rc = -1
    THEN [m |-> SetErr([FreeSuper(o.m, s) EXCEPT !.sup[s] = DeadSup], "EIO"),
          ok |-> FALSE, super |-> NULL]
    ELSE [m |-> [o.m EXCEPT !.supers = <<s>> \o @, !.sup[s].stamp = TRUE],
          ok |-> TRUE, super |-> s]

\* archive_same(me, super, archive_name, op, cookie): 1 for the superblock of
\* the archive asked for, 0 for the others
ArchiveSame(m, s, name) == IF m.sup[s].name = name THEN 1 ELSE 0

\* vfs_s_get_path_mangle from the test of FL_NO_OPEN on: no superblock matched
GetPathNew(m, name, noOpen) ==
    LET free == {s \in SupIds : m.sup[s] = DeadSup} IN
    IF noOpen THEN [m |-> SetErr(m, "EIO"), ok |-> FALSE, super |-> NULL]
    ELSE IF free = {}
    THEN [m |-> [m EXCEPT !.oom = TRUE], ok |-> FALSE, super |-> NULL]
    ELSE Opened(OpenArchive([m EXCEPT !.sup[Min(free)] =
                                          [DeadSup EXCEPT !.live = TRUE]],
                            Min(free), name),
                Min(free))

\* vfs_s_get_path_mangle without the scan of the list (a variant the
\* properties must tell from the code)
GetPathMangleNoScan(m, name, noOpen) == GetPathNew(m, name, noOpen)

\* vfs_s_get_path_mangle: the scan of the list stops at the first superblock
\* archive_same takes for the archive.  [m, ok, super]
GetPathMangle(m, name, noOpen) ==
    LET same == {k \in DOMAIN m.supers : ArchiveSame(m, m.supers[k], name) = 1} IN
    IF same /= {} THEN [m |-> m, ok |-> TRUE, super |-> m.supers[Min(same)]]
    ELSE GetPathNew(m, name, noOpen)

\* the archive the paths of the file and directory operations name
Archive == "arc"

\* vfs_s_get_path for a path of that archive
GetPath(m, noOpen) == GetPathMangle(m, Archive, noOpen)

\* ---- 4.C / 4.D / 4.E path resolution -------------------------------------

\* a symlink inode whose linkname is NULL
NoLinkname == <<"?">>

StripSep(p) == IF p /= <<>> /\ Head(p) = "/" THEN Tail(p) ELSE p

\* the scan of a child list for a name (first match)
Lookup(m, d, name) ==
    LET hits == {k \in 1..Len(m.ino[d].subdir) :
                    m.ent[m.ino[d].subdir[k]].name = name}
    IN IF hits = {} THEN NULL ELSE m.ino[d].subdir[Min(hits)]

RECURSIVE FullpathUp(_, _, _)
\* the loop of vfs_s_fullpath for archives: [m, ok, path]
FullpathUp(m, i, path) ==
    LET d == m.ent[m.ino[i].ent].dir IN
    IF d = NULL THEN [m |-> TouchIno(m, d), ok |-> FALSE, path |-> path]
    ELSE IF d = m.sup[m.ino[d].super].root
    THEN [m |-> TouchSup(TouchIno(m, d), m.ino[d].super), ok |-> TRUE,
          path |-> path]
    ELSE IF m.ino[d].ent = NULL
    THEN [m |-> TouchIno(TouchIno(m, d), NULL), ok |-> FALSE, path |-> path]
    ELSE FullpathUp(TouchIno(m, d), d, m.ent[m.ino[d].ent].name \o path)

\* vfs_s_fullpath: [m, ok, path]
Fullpath(m, i) ==
    LET e == m.ino[i].ent IN
    IF e = NULL
    THEN [m |-> SetErr(TouchIno(m, i), "EAGAIN"), ok |-> FALSE, path |-> <<>>]
    ELSE IF ~m.cls.remote THEN FullpathUp(TouchIno(m, i), i, m.ent[e].name)
    ELSE IF m.ent[e].dir = NULL \/ m.ino[m.ent[e].dir].ent = NULL
    THEN [m |-> TouchIno(m, i), ok |-> TRUE, path |-> m.ent[e].name]
    ELSE [m |-> TouchIno(m, i), ok |-> TRUE,
          path |-> m.ent[m.ino[m.ent[e].dir].ent].name \o m.ent[e].name]

\* vfs_s_automake
Automake(m, dir, path, flags) ==
    InsertNew(GenerateEntry(m, <<Head(path)>>, dir,
                            IF "FL_MKDIR" \in flags THEN "dir" ELSE "reg"),
              dir)

RECURSIVE FindEntryTree(_, _, _, _, _, _), TreeFound(_, _, _, _),
          TreeDescend(_, _, _, _), ResolveSymlink(_, _, _),
          FollowLink(_, _, _, _), FindEntryLinear(_, _, _, _, _),
          LinearFile(_, _, _, _), FindEntry(_, _, _, _, _),
          FindInode(_, _, _, _, _)

\* vfs_s_resolve_symlink, the lookup of the target; fp is what
\* vfs_s_fullpath of the link's directory gave
FollowLink(fp, d, linkname, follow) ==
    FindEntry(TouchSup(TouchIno(fp.m, d), fp.m.ino[d].super),
              fp.m.sup[fp.m.ino[d].super].root,
              IF fp.ok THEN fp.path \o linkname ELSE linkname,
              follow - 1, {})

\* vfs_s_resolve_symlink: [m, ent]
ResolveSymlink(m, e, follow) ==
    LET i == m.ent[e].ino
        linkname == m.ino[i].linkname
    IN IF follow = LINK_NO_FOLLOW THEN [m |-> m, ent |-> e]
       ELSE IF follow = 0 THEN [m |-> SetErr(m, "ELOOP"), ent |-> NULL]
       ELSE IF e = NULL THEN [m |-> SetErr(m, "ENOENT"), ent |-> NULL]
       ELSE IF m.ino[i].mode /= "lnk" THEN [m |-> TouchIno(m, i), ent |-> e]
       ELSE IF linkname = NoLinkname
       THEN [m |-> SetErr(TouchIno(m, i), "EFAULT"), ent |-> NULL]
       ELSE IF linkname = <<>> \/ Head(linkname) /= "/"
       THEN FollowLink(Fullpath(TouchIno(m, i), m.ent[e].dir), m.ent[e].dir,
                       linkname, follow)
       ELSE FollowLink([m |-> TouchIno(m, i), ok |-> FALSE, path |-> <<>>],
                       m.ent[e].dir, linkname, follow)

\* vfs_s_find_entry_tree, the scan of root's children for the segment and
\* the automake: [m, ent]
Seek(m, root, p, flags) ==
    IF Lookup(m, root, <<Head(p)>>) = NULL
       /\ flags \cap {"FL_MKFILE", "FL_MKDIR"} /= {}
    THEN Automake(m, root, p, flags)
    ELSE [m |-> m, ent |-> Lookup(m, root, <<Head(p)>>)]

\* vfs_s_find_entry_tree, after the symlink of the segment was resolved
TreeDescend(r, rest, follow, flags) ==
    IF r.ent = NULL THEN [m |-> r.m, ent |-> NULL]
    ELSE FindEntryTree(r.m, r.m.ent[r.ent].ino, rest, follow, flags, r.ent)

\* vfs_s_find_entry_tree that follows every segment as `follow` says (a
\* variant the properties must tell from the code)
TreeFoundAsCaller(r, p, follow, flags) ==
    IF r.ent = NULL THEN [m |-> SetErr(r.m, "ENOENT"), ent |-> NULL]
    ELSE TreeDescend(ResolveSymlink(r.m, r.ent, follow), Tail(p), follow, flags)

\* vfs_s_find_entry_tree, after the segment was looked up: leading
\* directories are followed always, the last segment as `follow` says
TreeFound(r, p, follow, flags) ==
    IF r.ent = NULL THEN [m |-> SetErr(r.m, "ENOENT"), ent |-> NULL]
    ELSE TreeDescend(ResolveSymlink(r.m, r.ent,
                                    IF Tail(p) /= <<>> THEN LINK_FOLLOW ELSE follow),
                     Tail(p), follow, flags)

\* vfs_s_find_entry_tree; `acc` is the entry resolved last (ent in the code)
FindEntryTree(m, root, path, follow, flags, acc) ==
    IF root = NULL THEN [m |-> m, ent |-> NULL]
    ELSE IF StripSep(path) = <<>> THEN [m |-> m, ent |-> acc]
    ELSE TreeFound(Seek(TouchIno(m, root), root, StripSep(path), flags),
                   StripSep(path), follow, flags)

\* vfs_s_find_entry_linear, the re-location of the entry after the insert
LinearRelocate(m, root, path) ==
    IF Lookup(m, root, path) = NULL THEN [m |-> Die(m), ent |-> NULL]
    ELSE [m |-> m, ent |-> Lookup(m, root, path)]

\* vfs_s_find_entry_linear, after dir_load answered
LinearInsert(l, e, root, path) ==
    IF l.rc = -1 THEN [m |-> FreeEntry(l.m, e), ent |-> NULL]
    ELSE LinearRelocate(InsertEntry(l.m, root, e), root, path)

\* vfs_s_find_entry_linear, the load of the new directory entry
LinearLoaded(g, root, path) ==
    IF g.ent = NULL THEN [m |-> g.m, ent |-> NULL]
    ELSE LinearInsert(DirLoad(g.m, g.m.ent[g.ent].ino, path), g.ent, root, path)

\* vfs_s_find_entry_linear, no (valid) entry in the cache
LinearLoad(m, root, path) ==
    LinearLoaded(NewEntryOf(NewInode(m, m.ino[root].super, "dir"), path),
                 root, path)

\* vfs_s_find_entry_linear without vfs_s_free_entry of the expired entry (a
\* variant the properties must tell from the code)
LinearCachedKeeps(u, found, root, path) ==
    IF u.ok THEN [m |-> u.m, ent |-> found]
    ELSE LinearLoad(u.m, root, path)

\* vfs_s_find_entry_linear that reloads a cached directory whatever
\* dir_uptodate answered (a variant the properties must tell from the code)
LinearCachedReloads(u, found, root, path) ==
    LinearLoad(FreeEntry(u.m, found), root, path)

\* vfs_s_find_entry_linear, after dir_uptodate answered for the cached entry
LinearCached(u, found, root, path) ==
    IF u.ok THEN [m |-> u.m, ent |-> found]
    ELSE LinearLoad(FreeEntry(u.m, found), root, path)

\* vfs_s_find_entry_linear, the lookup of a directory in the flat root
LinearDir(m, root, path) ==
    IF Lookup(m, root, path) = NULL THEN LinearLoad(m, root, path)
    ELSE LinearCached(DirUptodate(m, m.ent[Lookup(m, root, path)].ino),
                      Lookup(m, root, path), root, path)

\* vfs_s_find_entry_linear, the lookup of a name in its directory
LinearFile(r, name, follow, flags) ==
    FindEntryTree(r.m, r.ino, name, follow, flags, NULL)

\* vfs_s_find_entry_linear: [m, ent]
FindEntryLinear(m, root, path, follow, flags) ==
    IF m.sup[m.ino[root].super].root /= root
    THEN [m |-> Die(TouchSup(TouchIno(m, root), m.ino[root].super)), ent |-> NULL]
    ELSE IF "FL_DIR" \notin flags
    THEN LinearFile(FindInode(TouchSup(TouchIno(m, root), m.ino[root].super),
                              m.ino[root].super,
                              IF path = <<>> THEN <<>>
                              ELSE SubSeq(path, 1, Len(path) - 1),
                              follow, flags \cup {"FL_DIR"}),
                    IF path = <<>> THEN <<>> ELSE <<path[Len(path)]>>,
                    follow, flags)
    ELSE LinearDir(TouchSup(TouchIno(m, root), m.ino[root].super), root, path)

\* MEDATA->find_entry, bound by vfs_s_init_class
FindEntry(m, root, path, follow, flags) ==
    IF m.cls.remote THEN FindEntryLinear(m, root, path, follow, flags)
    ELSE FindEntryTree(m, root, path, follow, flags, NULL)

\* ent != NULL ? ent->ino : NULL
InoOf(r) == [m |-> r.m, ino |-> IF r.ent /= NULL THEN r.m.ent[r.ent].ino ELSE NULL]

\* vfs_s_find_inode: [m, ino]
FindInode(m, s, path, follow, flags) ==
    IF ~m.cls.remote /\ path = <<>>
    THEN [m |-> TouchSup(m, s), ino |-> m.sup[s].root]
    ELSE InoOf(FindEntry(TouchSup(m, s), m.sup[s].root, path, follow, flags))

\* vfs_s_inode_from_path, the second try for the root of a remote server
FromPathRetry(r, s, path, follow, fl) ==
    IF r.ino = NULL /\ path = <<>>
    THEN FindInode(r.m, s, path, follow, fl \cup {"FL_DIR"})
    ELSE r

\* vfs_s_inode_from_path, after vfs_s_get_path
FromPathIn(g, path, follow, fl) ==
    IF ~g.ok THEN [m |-> g.m, ino |-> NULL]
    ELSE FromPathRetry(FindInode(g.m, g.super, path, follow, fl), g.super, path,
                       follow, fl)

\* vfs_s_inode_from_path: [m, ino]
InodeFromPath(m, path, flags) ==
    FromPathIn(GetPath(m, FALSE), path,
               IF "FL_FOLLOW" \in flags THEN LINK_FOLLOW ELSE LINK_NO_FOLLOW,
               flags \ {"FL_FOLLOW"})

\* ---- the end of an operation ----------------------------------------------

\* Freed records nothing points to any more are forgotten (their ids are
\* free for the allocator); freed records still pointed to keep their
\* contents.
Gc(m, F, D) ==
    LET refI == {F[k].ino : k \in DOMAIN F} \cup {D[k].dir : k \in DOMAIN D}
                \cup {m.sup[s].root : s \in SupIds}
        ino2 == [i \in 0..MaxIno |->
                    IF i = NULL \/ (~m.ino[i].live /\ i \notin refI)
                    THEN DeadIno ELSE m.ino[i]]
        refS == {ino2[i].super : i \in InoIds}
        sup2 == [s \in 0..MaxSup |->
                    IF s = NULL \/ (~m.sup[s].live /\ s \notin refS)
                    THEN DeadSup ELSE m.sup[s]]
    IN [ino |-> ino2, sup |-> sup2]

\* What a run of the operation can end in: a NULL dereference crashes, a
\* use of freed memory reads the stale contents or crashes.
Outcomes(m) ==
    {CASE m.fault = "null" -> "segv"
       [] m.fault = "die" -> "die"
       [] m.uaf -> "uaf"
       [] OTHER -> "none"}
    \cup {"segv" : x \in {TRUE} \cap {m.uaf}}

\* What is remembered of the operations before: the run in progress of an
\* open, reads and writes on the handle it made and its close (run), with the
\* inode and superblock of the handle, their link count and count of open
\* files before the open, and at the close whether the file was changed,
\* its linear state, whether the cache was invalidated, the hooks called and
\* the result (these of every close); the calls of vfs_s_dir_uptodate of the
\* last operation, with the flush flag it began with; and of a read, write,
\* seek or close that ended in a crash, which it was.
NoLast == [run |-> "none", ino |-> NULL, sup |-> NULL, pre |-> 0, fd0 |-> 0,
           changed |-> FALSE, inval |-> FALSE, rc |-> 0, linear |-> "off",
           calls |-> <<>>, flush0 |-> FALSE, upt |-> <<>>, crashed |-> "none"]

\* The operation's effects become the next state; a crashed process leaves
\* none.  An allocation beyond the arena is not taken (the bounds of the
\* model).
Commit(m, F, D, L) ==
    /\ fault = "none"
    /\ ~m.oom
    /\ \E out \in Outcomes(m) :
          IF out \in {"segv", "die"}
          THEN /\ fault' = out
               /\ last' = [NoLast EXCEPT !.crashed = L.crashed]
               /\ UNCHANGED <<ino, ent, sup, supers, flush, verrno, fhs, dhs>>
          ELSE /\ ino' = Gc(m, F, D).ino
               /\ ent' = [m.ent EXCEPT ![NULL] = DeadEnt]
               /\ sup' = Gc(m, F, D).sup
               /\ supers' = m.supers
               /\ flush' = m.flush
               /\ verrno' = m.verrno
               /\ fhs' = F
               /\ dhs' = D
               /\ fault' = out
               /\ last' = [L EXCEPT !.flush0 = (m.upt /= <<>> /\ flush),
                                    !.upt = m.upt, !.crashed = "none"]
    /\ UNCHANGED <<cls, now, lk>>

\* ---- inputs ------------------------------------------------------------------
\* The answers of the environment during one operation: open_archive,
\* dir_load, the temp-file helper, the native open, file_store and
\* linear_start ("open": it sets the state and reports success, "fail": it
\* reports failure, "asis" and "closed": it reports success and leaves the
\* state as it was or sets it to Closed).
OkIn == [arch |-> "ok", load |-> "ok", tmp |-> "ok", nopen |-> "ok",
         store |-> "ok", lstart |-> "open", fhopen |-> "ok", bytes |-> <<>>,
         xfer |-> <<>>]
\* An answer is drawn only for a hook the operation can come to call:
\* open_archive when no superblock is listed, dir_load in a remote class,
\* file_store in a class that has it.
Inputs == {in \in {OkIn, [OkIn EXCEPT !.arch = "fail"], [OkIn EXCEPT !.load = "fail"]} :
              /\ in.arch = "fail" => supers = <<>>
              /\ in.load = "fail" => cls.remote}
OpenInputs == Inputs \cup {[OkIn EXCEPT !.tmp = "fail"], [OkIn EXCEPT !.nopen = "fail"]}
                     \cup {in \in {[OkIn EXCEPT !.fhopen = "fail"]} : cls.fh_open}
CloseInputs == {in \in {OkIn, [OkIn EXCEPT !.store = "fail"]} :
                   in.store = "fail" => cls.file_store}

DirPaths == {<<>>, <<"d">>}
StatPaths == {<<"d">>, <<"d", "g">>}
FilePaths == {<<"d", "f">>, <<"d", "g">>}

Room == Len(fhs) + Len(dhs) < MaxHandles

\* ---- 4.F directory iterator ----------------------------------------------

\* vfs_s_opendir, after vfs_s_inode_from_path: [m, dir], dir = NULL on failure
OpendirAt(r) ==
    IF r.ino = NULL THEN [m |-> r.m, dir |-> NULL]
    ELSE IF r.m.ino[r.ino].mode /= "dir"
    THEN [m |-> SetErr(TouchIno(r.m, r.ino), "ENOTDIR"), dir |-> NULL]
    ELSE [m |-> [TouchIno(r.m, r.ino) EXCEPT !.ino[r.ino].nlink = @ + 1],
          dir |-> r.ino]

\* the body of vfs_s_opendir
OpendirOp(m, path) == OpendirAt(InodeFromPath(m, path, {"FL_DIR", "FL_FOLLOW"}))

\* the body of vfs_s_closedir
ClosedirOp(m, dir) == FreeInode(TouchSup(TouchIno(m, dir), m.ino[dir].super), dir)

\* info->cur = dir->subdir
FirstOf(m, dir) == IF m.ino[dir].subdir = <<>> THEN NULL ELSE Head(m.ino[dir].subdir)

OpendirDone(r, path) ==
    Commit(r.m, fhs,
           IF r.dir = NULL THEN dhs
           ELSE Append(dhs, [dir |-> r.dir, cur |-> FirstOf(r.m, r.dir)]),
           NoLast)

\* vfs_s_opendir
Opendir(path, in) ==
    /\ Room
    /\ OpendirDone(OpendirOp(Mach(in), path), path)

\* g_list_next of the node of entry e in the child list it is in
NextOf(m, dir, e) ==
    LET l == m.ino[dir].subdir
        at == {k \in 1..Len(l) : l[k] = e}
    IN IF at = {} \/ Min(at) = Len(l) THEN NULL ELSE l[Min(at) + 1]

\* vfs_s_readdir: the cursor is a node of the directory's child list; the
\* node is freed memory once its entry has left the list
ReaddirOp(m, h) ==
    IF h.cur = NULL THEN m
    ELSE Touch(m, FALSE, m.ent[h.cur].live /\ m.ent[h.cur].dir = h.dir)

Readdir(k) ==
    /\ k \in DOMAIN dhs
    /\ Commit(ReaddirOp(Mach(OkIn), dhs[k]), fhs,
              [dhs EXCEPT ![k].cur = IF dhs[k].cur = NULL THEN NULL
                                     ELSE NextOf(Mach(OkIn), dhs[k].dir, dhs[k].cur)],
              NoLast)

\* vfs_s_closedir
Closedir(k) ==
    /\ k \in DOMAIN dhs
    /\ Commit(ClosedirOp(Mach(OkIn), dhs[k].dir), fhs, RemoveAt(dhs, k),
              NoLast)

ChdirDone(r, path) ==
    IF r.dir = NULL
    THEN Commit(r.m, fhs, dhs, NoLast)
    ELSE Commit(ClosedirOp(r.m, r.dir), fhs, dhs, NoLast)

\* vfs_s_chdir: opendir, then closedir of what it returned
Chdir(path, in) == ChdirDone(OpendirOp(Mach(in), path), path)

\* ---- stat family, controls ---------------------------------------------------

\* vfs_s_internal_stat, *buf = ino->st
StatDone(r, path) ==
    Commit(IF r.ino = NULL THEN r.m ELSE TouchIno(r.m, r.ino), fhs, dhs,
           NoLast)

\* vfs_s_stat (fl = {"FL_FOLLOW"}) and vfs_s_lstat (fl = {})
Stat(path, fl, in) == StatDone(InodeFromPath(Mach(in), path, fl), path)

\* vfs_s_readlink, after vfs_s_inode_from_path: [m, ino, rc, buf]
ReadlinkOf(r) ==
    IF r.ino = NULL THEN [m |-> r.m, ino |-> NULL, rc |-> -1, buf |-> <<>>]
    ELSE IF r.m.ino[r.ino].mode /= "lnk"
    THEN [m |-> SetErr(TouchIno(r.m, r.ino), "EINVAL"), ino |-> r.ino, rc |-> -1,
          buf |-> <<>>]
    ELSE IF r.m.ino[r.ino].linkname = NoLinkname
    THEN [m |-> SetErr(TouchIno(r.m, r.ino), "EFAULT"), ino |-> r.ino, rc |-> -1,
          buf |-> <<>>]
    ELSE [m |-> TouchIno(r.m, r.ino), ino |-> r.ino,
          rc |-> Len(r.m.ino[r.ino].linkname), buf |-> r.m.ino[r.ino].linkname]

\* the body of vfs_s_readlink
ReadlinkOp(m, path) == ReadlinkOf(InodeFromPath(m, path, {}))

\* what a stat, lstat or readlink of a path found is remembered
FoundDone(r, kind, path) ==
    Commit(IF r.ino = NULL THEN r.m ELSE TouchIno(r.m, r.ino), fhs, dhs,
           [NoLast EXCEPT !.run = kind, !.ino = r.ino,
                          !.calls = <<[hook |-> kind, arg |-> path]>>])

\* vfs_s_stat
StatOf(path) == FoundDone(InodeFromPath(Mach(OkIn), path, {"FL_FOLLOW"}), "stat", path)

\* vfs_s_lstat
Lstat(path) == FoundDone(InodeFromPath(Mach(OkIn), path, {}), "lstat", path)

\* vfs_s_readlink
Readlink(path) == FoundDone(ReadlinkOp(Mach(OkIn), path), "readlink", path)

\* vfs_s_setctl, VFS_SETCTL_STALE_DATA, on the superblock s of the inode
SetStale(m, s, arg) ==
    IF arg THEN [TouchSup(m, s) EXCEPT !.sup[s].want_stale = TRUE]
    ELSE Invalidate([TouchSup(m, s) EXCEPT !.sup[s].want_stale = FALSE], s)

StaleDone(r, path, arg) ==
    IF r.ino = NULL
    THEN Commit(r.m, fhs, dhs, NoLast)
    ELSE Commit(SetStale(TouchIno(r.m, r.ino), r.m.ino[r.ino].super, arg),
                fhs, dhs, NoLast)

\* vfs_s_setctl, VFS_SETCTL_STALE_DATA
SetctlStale(path, arg, in) == StaleDone(InodeFromPath(Mach(in), path, {}), path, arg)

\* vfs_s_setctl, VFS_SETCTL_FLUSH
SetctlFlush ==
    Commit([Mach(OkIn) EXCEPT !.flush = TRUE], fhs, dhs, NoLast)

\* vfs_s_free: the collector frees a superblock of the list
Free(s) ==
    /\ s \in {supers[k] : k \in DOMAIN supers}
    /\ Commit(FreeSuper(Mach(OkIn), s), fhs, dhs, NoLast)

\* the clock
Tick ==
    /\ fault = "none"
    /\ now < MaxTime
    /\ now' = now + 1
    /\ last' = NoLast
    /\ UNCHANGED <<cls, ino, ent, sup, supers, flush, verrno, fhs, dhs, fault, lk>>

\* ---- 4.G file handles ---------------------------------------------------------

\* vfs_file_handler_t: `fd` is handle != -1; linear is "off" (LS_NOT_LINEAR),
\* "preopen", "open" or "closed"
NoFh == [ino |-> NULL, changed |-> FALSE, linear |-> "off", fd |-> FALSE, pos |-> 0,
         off |-> 0]

OpenFail(m) == [m |-> m, ok |-> FALSE, fh |-> NoFh, super |-> NULL]

\* vfs_s_open, the linear state of the new handle: PreOpen if linear mode is
\* asked for and the class has linear_start
LinearOf(m, flags) ==
    IF "O_LINEAR" \in flags /\ m.cls.linear THEN "preopen" ELSE "off"

\* vfs_s_open, the call of fh_open: only if linear mode is not asked for.
\* [m, ok]
OpenHook(m, flags) ==
    IF "O_LINEAR" \notin flags /\ m.cls.fh_open
    THEN [m |-> Call(m, "fh_open", flags), ok |-> m.in.fhopen /= "fail"]
    ELSE [m |-> m, ok |-> TRUE]

\* vfs_s_open that leaves the idle stamp on the superblock (a variant the
\* properties must tell from the code)
OpenLocalKeepsStamp(k, s, i, created, flags) ==
    IF ~k.ok THEN OpenFail(k.m)
    ELSE IF k.m.ino[i].localname /\ k.m.in.nopen = "fail"
    THEN OpenFail(SetErr(TouchIno(k.m, i), "errno"))
    ELSE [m |-> [TouchSup(TouchIno(k.m, i), s)
                    EXCEPT !.sup[s].fd_usage = @ + 1,
                           !.ino[i].nlink = @ + 1],
          ok |-> TRUE,
          fh |-> [ino |-> i, changed |-> created, linear |-> LinearOf(k.m, flags),
                  fd |-> k.m.ino[i].localname, pos |-> 0, off |-> 0],
          super |-> s]

\* vfs_s_open, after fh_open: the native open of the local file and the
\* counting of the handle
OpenLocal(k, s, i, created, flags) ==
    IF ~k.ok THEN OpenFail(k.m)
    ELSE IF k.m.ino[i].localname /\ k.m.in.nopen = "fail"
    THEN OpenFail(SetErr(TouchIno(k.m, i), "errno"))
    ELSE [m |-> [TouchSup(TouchIno(k.m, i), s)
                    EXCEPT !.sup[s].stamp = FALSE,
                           !.sup[s].fd_usage = @ + 1,
                           !.ino[i].nlink = @ + 1],
          ok |-> TRUE,
          fh |-> [ino |-> i, changed |-> created, linear |-> LinearOf(k.m, flags),
                  fd |-> k.m.ino[i].localname, pos |-> 0, off |-> 0],
          super |-> s]

\* vfs_s_open, from the test of the inode's type to the end; `created` is
\* was_changed
OpenHandle(m, s, i, created, flags) ==
    IF m.ino[i].mode = "dir" THEN OpenFail(SetErr(TouchIno(m, i), "EISDIR"))
    ELSE OpenLocal(OpenHook(m, flags), s, i, created, flags)

\* the O_CREAT branch of vfs_s_open, after the new entry was inserted: the
\* temp file becomes the inode's local copy
OpenTemp(g, s, flags) ==
    IF g.ent = NULL \/ g.m.in.tmp = "fail" THEN OpenFail(g.m)
    ELSE OpenHandle([g.m EXCEPT !.ino[g.m.ent[g.ent].ino].localname = TRUE],
                    s, g.m.ent[g.ent].ino, TRUE, flags)

\* the O_CREAT branch of vfs_s_open, after the directory was looked up
OpenIn(d, s, name, flags) ==
    IF d.ino = NULL THEN OpenFail(d.m)
    ELSE OpenTemp(InsertNew(GenerateEntry(d.m, name, d.ino, "reg"), d.ino),
                  s, flags)

\* the O_CREAT branch of vfs_s_open (the inode was not found)
OpenCreate(m, s, path, flags) ==
    IF "O_CREAT" \notin flags \/ ~m.cls.write THEN OpenFail(m)
    ELSE OpenIn(FindInode(m, s,
                          IF path = <<>> THEN <<>> ELSE SubSeq(path, 1, Len(path) - 1),
                          LINK_FOLLOW, {"FL_DIR"}),
                s,
                IF path = <<>> THEN <<>> ELSE <<path[Len(path)]>>,
                flags)

\* vfs_s_open, after the lookup of the file
OpenFound(r, s, path, flags) ==
    IF r.ino /= NULL /\ {"O_CREAT", "O_EXCL"} \subseteq flags
    THEN OpenFail(SetErr(r.m, "EEXIST"))
    ELSE IF r.ino = NULL THEN OpenCreate(r.m, s, path, flags)
    ELSE OpenHandle(r.m, s, r.ino, FALSE, flags)

\* vfs_s_open, after vfs_s_get_path
OpenAt(g, path, flags) ==
    IF ~g.ok THEN OpenFail(g.m)
    ELSE OpenFound(FindInode(g.m, g.super, path, LINK_FOLLOW, {}), g.super,
                   path, flags)

\* the body of vfs_s_open: [m, ok, fh, super]
OpenOp(m, path, flags) == OpenAt(GetPath(m, FALSE), path, flags)

OpenDone(r) ==
    Commit(r.m, IF r.ok THEN Append(fhs, r.fh) ELSE fhs, dhs,
           IF ~r.ok THEN NoLast
           ELSE [NoLast EXCEPT !.run = "open", !.ino = r.fh.ino, !.sup = r.super,
                               !.pre = r.m.ino[r.fh.ino].nlink - 1,
                               !.fd0 = r.m.sup[r.super].fd_usage - 1])

\* vfs_s_open
Open(path, flags, in) ==
    /\ Room
    /\ OpenDone(OpenOp(Mach(in), path, flags))

\* The last operations were the open of the newest handle and reads, writes
\* or seeks on it.
Chained(k) == last.run \in {"open", "used"} /\ k = Len(fhs)

\* what is remembered of a read, write or seek on handle k
Used(k, op) ==
    IF Chained(k) THEN [last EXCEPT !.run = "used", !.crashed = op]
    ELSE [NoLast EXCEPT !.crashed = op]

\* FH_SUPER->me: the handle's inode and its superblock are read
FhSuper(m, h) == TouchSup(TouchIno(m, h.ino), m.ino[h.ino].super)

\* the host's read of a whole local file from offset off
HostRead(data, off) == SubSeq(data, off + 1, Len(data))

\* the host's write of bytes b into a local file at offset off (a hole is
\* filled with zeros)
HostWrite(data, off, b) ==
    [k \in 1..(IF off + Len(b) > Len(data) THEN off + Len(b) ELSE Len(data)) |->
        IF k > off /\ k <= off + Len(b) THEN b[k - off]
        ELSE IF k <= Len(data) THEN data[k] ELSE 0]

\* what vfs_s_read put into the caller's buffer: the local file from the
\* descriptor's offset (the transfer of linear_read is not modelled)
ReadBuf(m, h) == IF h.fd THEN HostRead(m.ino[h.ino].data, h.off) ELSE <<>>

\* vfs_s_read, the call of linear_start for a handle in PreOpen: [m, h, ok]
ReadStart(m, h) ==
    IF h.linear /= "preopen" THEN [m |-> m, h |-> h, ok |-> TRUE]
    ELSE [m |-> Call(m, "linear_start", h.pos),
          h |-> [h EXCEPT !.linear = IF m.in.lstart \in {"open", "closed"}
                                     THEN m.in.lstart ELSE @],
          ok |-> m.in.lstart /= "fail"]

\* vfs_s_read, after linear_start: [m, h, rc]
ReadRest(r) ==
    IF ~r.ok THEN [m |-> r.m, h |-> r.h, rc |-> -1]
    ELSE IF r.h.linear = "closed" THEN [m |-> Die(r.m), h |-> r.h, rc |-> -1]
    ELSE IF r.h.linear = "open"
    THEN [m |-> Call(r.m, "linear_read", r.h.pos), h |-> r.h, rc |-> 0]
    ELSE IF r.h.fd
    THEN [m |-> Call(r.m, "read", r.h.pos),
          h |-> [r.h EXCEPT !.off = IF @ < Len(r.m.ino[r.h.ino].data)
                                    THEN Len(r.m.ino[r.h.ino].data) ELSE @],
          rc |-> Len(HostRead(r.m.ino[r.h.ino].data, r.h.off))]
    ELSE [m |-> Die(r.m), h |-> r.h, rc |-> -1]

\* the body of vfs_s_read: [m, h, rc]
ReadOp(m, h) == ReadRest(ReadStart(FhSuper(m, h), h))

ReadDone(r, k) == Commit(r.m, [fhs EXCEPT ![k] = r.h], dhs, Used(k, "read"))

\* linear_start answers only for a handle in PreOpen
ReadInputs(k) ==
    {OkIn} \cup {[OkIn EXCEPT !.lstart = a] :
                    a \in {x \in {"fail", "asis", "closed"} :
                              k \in DOMAIN fhs /\ fhs[k].linear = "preopen"}}

\* vfs_s_read
Read(k, in) ==
    /\ k \in DOMAIN fhs
    /\ ReadDone(ReadOp(Mach(in), fhs[k]), k)

\* vfs_s_write, the native write of m.in.bytes at the descriptor's offset
WriteNative(m, h) ==
    [m |-> [Call(m, "write", h.pos)
               EXCEPT !.ino[h.ino].data = HostWrite(@, h.off, m.in.bytes)],
     h |-> [h EXCEPT !.changed = TRUE, !.off = @ + Len(m.in.bytes)]]

\* vfs_s_write without the test of the linear state (a variant the properties
\* must tell from the code)
WriteOpAnyState(m, h) ==
    IF h.fd THEN WriteNative(FhSuper(m, h), h)
    ELSE [m |-> Die(FhSuper(m, h)), h |-> [h EXCEPT !.changed = TRUE]]

\* the body of vfs_s_write: [m, h]
WriteOp(m, h) ==
    IF h.linear /= "off" THEN [m |-> Die(FhSuper(m, h)), h |-> h]
    ELSE IF h.fd THEN WriteNative(FhSuper(m, h), h)
    ELSE [m |-> Die(FhSuper(m, h)), h |-> [h EXCEPT !.changed = TRUE]]

WriteDone(r, k) == Commit(r.m, [fhs EXCEPT ![k] = r.h], dhs, Used(k, "write"))

\* vfs_s_write of the bytes b; a local file does not outgrow the model
WriteBytes(k, b) ==
    /\ k \in DOMAIN fhs
    /\ fhs[k].off + Len(b) <= MaxData
    /\ WriteDone(WriteOp(Mach([OkIn EXCEPT !.bytes = b]), fhs[k]), k)

\* vfs_s_write of no bytes
Write(k) == WriteBytes(k, <<>>)

\* the end of vfs_s_lseek: the position is kept within the file
Clamp(offset, size) ==
    IF offset < 0 THEN 0 ELSE IF offset < size THEN offset ELSE size

\* vfs_s_lseek, the host's lseek on the descriptor (a negative target fails
\* and moves nothing)
LseekNative(m, h, offset, whence) ==
    [m |-> Call(m, "lseek", offset),
     h |-> [h EXCEPT !.off =
               IF offset + (CASE whence = "SEEK_CUR" -> @
                              [] whence = "SEEK_END" -> Len(m.ino[h.ino].data)
                              [] OTHER -> 0) < 0
               THEN @
               ELSE offset + (CASE whence = "SEEK_CUR" -> @
                                [] whence = "SEEK_END" -> Len(m.ino[h.ino].data)
                                [] OTHER -> 0)]]

\* vfs_s_lseek without the test of the linear state (a variant the properties
\* must tell from the code)
LseekOpAnyState(m, h, offset, whence) ==
    IF h.fd THEN LseekNative(TouchIno(m, h.ino), h, offset, whence)
    ELSE [m |-> TouchIno(m, h.ino),
          h |-> [h EXCEPT !.pos =
                    Clamp(offset + (CASE whence = "SEEK_CUR" -> h.pos
                                      [] whence = "SEEK_END" -> FileSize
                                      [] OTHER -> 0),
                          FileSize)]]

\* the body of vfs_s_lseek: [m, h]
LseekOp(m, h, offset, whence) ==
    IF h.linear = "open" THEN [m |-> Die(TouchIno(m, h.ino)), h |-> h]
    ELSE IF h.fd THEN LseekNative(TouchIno(m, h.ino), h, offset, whence)
    ELSE [m |-> TouchIno(m, h.ino),
          h |-> [h EXCEPT !.pos =
                    Clamp(offset + (CASE whence = "SEEK_CUR" -> h.pos
                                      [] whence = "SEEK_END" -> FileSize
                                      [] OTHER -> 0),
                          FileSize)]]

LseekDone(r, k) == Commit(r.m, [fhs EXCEPT ![k] = r.h], dhs, Used(k, "lseek"))

\* vfs_s_lseek
Lseek(k, offset, whence) ==
    /\ k \in DOMAIN fhs
    /\ LseekDone(LseekOp(Mach(OkIn), fhs[k], offset, whence), k)

\* vfs_s_close, the store of a changed file; fp is what vfs_s_fullpath
\* gave: [m, rc]
CloseStore(fp, h, s) ==
    IF ~fp.ok THEN [m |-> Invalidate(fp.m, s), rc |-> -1]
    ELSE [m |-> Invalidate(Call(TouchIno(fp.m, h.ino), "file_store",
                                [path |-> fp.path,
                                 localname |-> fp.m.ino[h.ino].localname]),
                           s),
          rc |-> IF fp.m.in.store = "fail" THEN -1 ELSE 0]

\* vfs_s_close, after linear_close
CloseFlush(m, h, s) ==
    IF h.changed /\ m.cls.file_store
    THEN CloseStore(Fullpath(m, h.ino), h, s)
    ELSE [m |-> m, rc |-> 0]

\* vfs_s_close, the release of the inode
CloseFree(c, i) == [m |-> FreeInode(c.m, i), rc |-> c.rc]

\* vfs_s_close, after the superblock's count of open files was lowered
CloseLinear(m, h) ==
    IF h.linear = "open" THEN Call(m, "linear_close", h.pos) ELSE m

\* vfs_s_close without FH_SUPER->fd_usage-- (a variant the properties must
\* tell from the code)
CloseOpKeepsCount(m, h) ==
    CloseFree(CloseFlush(CloseLinear(FhSuper(m, h), h), h, m.ino[h.ino].super),
              h.ino)

\* the body of vfs_s_close: [m, rc]
CloseOp(m, h) ==
    CloseFree(CloseFlush(CloseLinear([FhSuper(m, h)
                             EXCEPT !.sup[m.ino[h.ino].super].fd_usage = @ - 1,
                                    !.sup[m.ino[h.ino].super].stamp =
                                        IF m.sup[m.ino[h.ino].super].fd_usage - 1 = 0
                                        THEN TRUE ELSE @], h),
                         h, m.ino[h.ino].super),
              h.ino)

CloseDone(r, k) ==
    Commit(r.m, RemoveAt(fhs, k), dhs,
           [(IF Chained(k) THEN last ELSE NoLast)
               EXCEPT !.run = IF Chained(k) THEN "closed" ELSE "none",
                      !.crashed = "close",
                      !.rc = r.rc,
                      !.calls = r.m.calls,
                      !.linear = fhs[k].linear,
                      !.changed = fhs[k].changed,
                      !.inval = fhs[k].changed /\ cls.file_store
                                /\ ~sup[ino[fhs[k].ino].super].want_stale])

\* vfs_s_close
Close(k, in) ==
    /\ k \in DOMAIN fhs
    /\ CloseDone(CloseOp(Mach(in), fhs[k]), k)

\* ---- vfs_s_retrieve_file --------------------------------------------------------

\* What a round of the transfer loop meets: a chunk that is read and written
\* ("data"), a failing linear_read ("rerr"), the interrupt key ("intr"), a
\* short write ("short") or a failing write ("werr"); after the events of
\* in.xfer linear_read returns 0.
Events == {"data", "rerr", "intr", "short", "werr"}
Xfers == {s \in UNION {[1..n -> Events] : n \in 0..MaxChunks} :
             \A k \in 1..(Len(s) - 1) : s[k] = "data"}
RetrieveInputs == {[OkIn EXCEPT !.tmp = t, !.lstart = l, !.xfer = x] :
                      t \in {"ok", "fail"}, l \in {"open", "fail"}, x \in Xfers}

\* error_4: the localname is dropped
RetrieveErr4(m, i) == [m |-> [m EXCEPT !.ino[i].localname = FALSE], rc |-> -1]

\* error_3: the local file is closed and unlinked
RetrieveErr3(m, i) ==
    RetrieveErr4([Call(m, "unlink", i) EXCEPT !.ino[i].data = <<>>], i)

\* error_1 that goes on without linear_close (a variant the properties must
\* tell from the code)
RetrieveErr1NoClose(m, i) == RetrieveErr3(m, i)

\* error_1: the transfer is closed
RetrieveErr1(m, i) == RetrieveErr3(Call(m, "linear_close", i), i)

RECURSIVE RetrieveLoop(_, _, _)
\* the transfer loop, one call of linear_read a round
RetrieveLoop(m, i, evs) ==
    IF evs = <<>>
    THEN [m |-> Call(Call(m, "linear_read", i), "linear_close", i), rc |-> 0]
    ELSE IF Head(evs) = "rerr" THEN RetrieveErr1(Call(m, "linear_read", i), i)
    ELSE IF Head(evs) = "intr" THEN RetrieveErr1(Call(m, "linear_read", i), i)
    ELSE IF Head(evs) = "short" THEN RetrieveErr1(Call(m, "linear_read", i), i)
    ELSE IF Head(evs) = "werr"
    THEN RetrieveErr1(SetErr(Call(m, "linear_read", i), "errno"), i)
    ELSE RetrieveLoop([Call(m, "linear_read", i)
                          EXCEPT !.ino[i].data = Append(@, 1)],
                      i, Tail(evs))

\* vfs_s_retrieve_file, after the temp file was made
RetrieveStart(m, i) ==
    IF m.in.lstart = "fail" THEN RetrieveErr3(Call(m, "linear_start", 0), i)
    ELSE RetrieveLoop(Call(m, "linear_start", 0), i, m.in.xfer)

\* vfs_s_retrieve_file, after the name of the inode's entry was read
RetrieveNamed(m, i) ==
    IF m.in.tmp = "fail" THEN RetrieveErr4(SetErr(m, "errno"), i)
    ELSE RetrieveStart([m EXCEPT !.ino[i].localname = TRUE, !.ino[i].data = <<>>], i)

\* the body of vfs_s_retrieve_file: [m, rc]
RetrieveFile(m, i) ==
    RetrieveNamed(Touch(TouchIno(m, i), m.ino[i].ent = NULL, m.ent[m.ino[i].ent].live), i)

RetrieveDone(r, i) ==
    Commit(r.m, fhs, dhs,
           [NoLast EXCEPT !.run = "retrieved", !.ino = i, !.rc = r.rc,
                          !.calls = r.m.calls])

\* vfs_s_retrieve_file on a regular file of the cache
Retrieve(i, in) ==
    /\ ino[i].live
    /\ ino[i].mode = "reg"
    /\ RetrieveDone(RetrieveFile(Mach(in), i), i)

\* ---- the cache as a state machine --------------------------------------------

\* The classes: an archive class resolves by the tree and keeps a reference
\* of its own on the root it makes, a remote class resolves by the flat root
\* and keeps none; both are writable, with or without file_store.
Classes == {[remote |-> r, file_store |-> f, linear |-> l, fh_open |-> h,
             rootlink |-> IF r THEN 0 ELSE 1, write |-> TRUE] :
               r \in BOOLEAN, f \in BOOLEAN, l \in BOOLEAN, h \in BOOLEAN}

NoLk == [pc |-> "off"]

Init ==
    /\ cls \in Classes
    /\ ino = [i \in 0..MaxIno |-> DeadIno]
    /\ ent = [e \in 0..MaxEnt |-> DeadEnt]
    /\ sup = [s \in 0..MaxSup |-> DeadSup]
    /\ supers = <<>>
    /\ flush = FALSE
    /\ verrno = "0"
    /\ fhs = <<>>
    /\ dhs = <<>>
    /\ now = 0
    /\ fault = "none"
    /\ last = NoLast
    /\ lk = NoLk

\* directories and lookups
DirNext ==
    \/ \E p \in DirPaths, in \in Inputs : Opendir(p, in)
    \/ \E k \in 1..MaxHandles : Readdir(k)
    \/ \E k \in 1..MaxHandles : Closedir(k)
    \/ \E p \in DirPaths, in \in Inputs : Chdir(p, in)
    \/ \E p \in StatPaths, fl \in {{}, {"FL_FOLLOW"}}, in \in Inputs :
          Stat(p, fl, in)

\* the controls that drop cached data
CtlNext ==
    \/ \E p \in DirPaths, arg \in BOOLEAN, in \in Inputs : SetctlStale(p, arg, in)
    \/ \E s \in SupIds : Free(s)

\* files
FileNext ==
    \/ \E p \in FilePaths, fl \in {{}, {"O_CREAT"}}, in \in OpenInputs : Open(p, fl, in)
    \/ \E k \in 1..MaxHandles : \E in \in ReadInputs(k) : Read(k, in)
    \/ \E k \in 1..MaxHandles : Write(k)
    \/ \E k \in 1..MaxHandles, in \in CloseInputs : Close(k, in)

\* the operations of the cache
CacheNext == DirNext \/ CtlNext \/ FileNext

\* files opened for a linear transfer, and seeks
LinearNext ==
    \/ \E p \in FilePaths, fl \in {{"O_LINEAR"}, {"O_CREAT"}}, in \in OpenInputs :
          Open(p, fl, in)
    \/ \E k \in 1..MaxHandles : \E in \in ReadInputs(k) : Read(k, in)
    \/ \E k \in 1..MaxHandles : Write(k)
    \/ \E k \in 1..MaxHandles, offset \in {0, 1}, whence \in {"SEEK_SET", "SEEK_END"} :
          Lseek(k, offset, whence)
    \/ \E k \in 1..MaxHandles, in \in CloseInputs : Close(k, in)

\* with the flush control and the clock, which only vfs_s_dir_uptodate reads
Next == CacheNext \/ LinearNext \/ SetctlFlush \/ Tick

Spec == Init /\ [][Next]_vars

\* An archive class (the tree resolver) never reads the clock.
TreeInit == Init /\ ~cls.remote /\ ~cls.linear /\ ~cls.fh_open
TreeSpec == TreeInit /\ [][CacheNext]_vars

\* The directories of a remote class (the flat root): they are loaded on
\* demand and expire.
RemoteInit == Init /\ cls.remote /\ ~cls.file_store /\ ~cls.linear /\ ~cls.fh_open
RemoteDirs == {<<"d">>}
RemoteFiles == {<<"d", "f">>}
RemoteNext ==
    \/ \E p \in RemoteDirs, in \in Inputs : Opendir(p, in)
    \/ \E k \in 1..MaxHandles : Readdir(k)
    \/ \E k \in 1..MaxHandles : Closedir(k)
    \/ \E p \in RemoteDirs, in \in Inputs : Chdir(p, in)
    \/ \E p \in RemoteFiles, fl \in {{}, {"FL_FOLLOW"}}, in \in Inputs :
          Stat(p, fl, in)
    \/ \E s \in SupIds : Free(s)
    \/ SetctlFlush
    \/ Tick
RemoteSpec == RemoteInit /\ [][RemoteNext]_vars

\* The file handles of a class with linear_start.
LinearInit == Init /\ cls.linear /\ ~cls.remote /\ ~cls.file_store /\ ~cls.fh_open
LinearSpec == LinearInit /\ [][LinearNext]_vars

\* A writable archive class whose files are written and read back
Bytes == {<<>>, <<1>>, <<2>>, <<1, 2>>}
StoreInit == Init /\ ~cls.remote /\ ~cls.linear /\ ~cls.fh_open
StoreNext ==
    \/ \E p \in FilePaths, fl \in {{}, {"O_CREAT"}} : Open(p, fl, OkIn)
    \/ \E k \in 1..MaxHandles, b \in Bytes : WriteBytes(k, b)
    \/ \E k \in 1..MaxHandles : Read(k, OkIn)
    \/ \E k \in 1..MaxHandles : Close(k, OkIn)
StoreSpec == StoreInit /\ [][StoreNext]_vars

\* A class with linear transfers whose files are fetched into local copies
RetrieveInit == Init /\ cls.linear /\ ~cls.remote /\ ~cls.file_store /\ ~cls.fh_open
RetrieveNext ==
    \/ \E p \in FilePaths : Open(p, {}, OkIn)
    \/ \E k \in 1..MaxHandles : Read(k, OkIn)
    \/ \E k \in 1..MaxHandles : Close(k, OkIn)
    \/ \E i \in InoIds, in \in RetrieveInputs : Retrieve(i, in)
RetrieveSpec == RetrieveInit /\ [][RetrieveNext]_vars

\* A class with fh_open, with or without linear_start: opens in every mode
HookInit == Init /\ cls.fh_open /\ ~cls.remote /\ ~cls.file_store
HookNext ==
    \/ \E p \in FilePaths, fl \in {{}, {"O_LINEAR"}, {"O_CREAT"}}, in \in OpenInputs :
          Open(p, fl, in)
    \/ \E k \in 1..MaxHandles : \E in \in ReadInputs(k) : Read(k, in)
    \/ \E k \in 1..MaxHandles, in \in CloseInputs : Close(k, in)
HookSpec == HookInit /\ [][HookNext]_vars

\* ---- the registry of superblocks as a state machine ---------------------------

\* the archives paths can name
Names == {Archive, "b", "c"}

RegInputs == {OkIn, [OkIn EXCEPT !.arch = "fail"]}

GetPathDone(r) ==
    Commit(r.m, fhs, dhs,
           [NoLast EXCEPT !.run = "got",
                          !.sup = IF r.ok THEN r.super ELSE NULL,
                          !.calls = r.m.calls])

\* vfs_s_get_path for a path of archive `name`, flags 0
GetPathOpen(name, in) == GetPathDone(GetPathMangle(Mach(in), name, FALSE))

\* vfs_s_getid: vfs_s_get_path with FL_NO_OPEN
Getid(name) == GetPathDone(GetPathMangle(Mach(OkIn), name, TRUE))

RegistryNext ==
    \/ \E name \in Names, in \in RegInputs : GetPathOpen(name, in)
    \/ \E name \in Names : Getid(name)
    \/ \E s \in SupIds : Free(s)

RegistrySpec == Init /\ [][RegistryNext]_vars

\* ---- one lookup, step by step -------------------------------------------------
\* vfs_s_find_entry_tree and vfs_s_resolve_symlink call each other; here one
\* lookup runs as a machine with the stack of the calls of
\* vfs_s_find_entry_tree in progress, one turn of its loop per step.  A frame
\* holds the arguments of the call (call) and its variables root, path,
\* follow and ent (acc).  The cache is an archive with symbolic links and is
\* not changed by the lookup (no FL_MKFILE, FL_MKDIR).

\* the targets of the links "a" and "b" of the root
Targets == {<<"a">>, <<"b">>, <<"a", "x">>, <<"d", "x">>, <<"/", "b">>}

LinkNode(mode, e, sub, target) ==
    [DeadIno EXCEPT !.live = TRUE, !.nlink = 1, !.mode = mode, !.ent = e,
                    !.super = 1, !.subdir = sub, !.linkname = target]

\* the inodes of the archive: the root (1) holds the links a (2) and b (3)
\* and the directory d (4), which holds the file x (5)
LinkInodes(ta, tb) ==
    [i \in 0..MaxIno |->
        CASE i = 1 -> LinkNode("dir", NULL, <<1, 2, 3>>, <<>>)
          [] i = 2 -> LinkNode("lnk", 1, <<>>, ta)
          [] i = 3 -> LinkNode("lnk", 2, <<>>, tb)
          [] i = 4 -> LinkNode("dir", 3, <<4>>, <<>>)
          [] i = 5 -> LinkNode("reg", 4, <<>>, <<>>)
          [] OTHER -> DeadIno]

LinkEntries ==
    [e \in 0..MaxEnt |->
        CASE e = 1 -> [live |-> TRUE, name |-> <<"a">>, ino |-> 2, dir |-> 1]
          [] e = 2 -> [live |-> TRUE, name |-> <<"b">>, ino |-> 3, dir |-> 1]
          [] e = 3 -> [live |-> TRUE, name |-> <<"d">>, ino |-> 4, dir |-> 1]
          [] e = 4 -> [live |-> TRUE, name |-> <<"x">>, ino |-> 5, dir |-> 4]
          [] OTHER -> DeadEnt]

LookupInit ==
    /\ cls = [remote |-> FALSE, file_store |-> FALSE, linear |-> FALSE,
              fh_open |-> FALSE, rootlink |-> 1, write |-> TRUE]
    /\ \E ta \in Targets, tb \in Targets : ino = LinkInodes(ta, tb)
    /\ ent = LinkEntries
    /\ sup = [s \in 0..MaxSup |->
                 IF s = 1 THEN [DeadSup EXCEPT !.live = TRUE, !.root = 1,
                                               !.ino_usage = 5, !.stamp = TRUE]
                 ELSE DeadSup]
    /\ supers = <<1>>
    /\ flush = FALSE
    /\ verrno = "0"
    /\ fhs = <<>>
    /\ dhs = <<>>
    /\ now = 0
    /\ fault = "none"
    /\ last = NoLast
    /\ lk = NoLk

Frame(root, path, follow) ==
    [call |-> <<root, path, follow>>, root |-> root, path |-> path,
     follow |-> follow, acc |-> NULL]

Top == lk.stack[Len(lk.stack)]
Below == SubSeq(lk.stack, 1, Len(lk.stack) - 1)

LkKeep == UNCHANGED <<cls, ino, ent, sup, supers, flush, fhs, dhs, now, fault, last>>

\* a caller looks up `path` from the root with the hop budget `follow`
LkStart(path, follow) ==
    /\ lk.pc = "off"
    /\ lk' = [pc |-> "run", stack |-> <<Frame(sup[1].root, path, follow)>>,
              ret |-> NULL, path0 |-> path, follow0 |-> follow]
    /\ UNCHANGED verrno
    /\ LkKeep

\* return v: the call on top of the stack ends
LkRet(v, err) ==
    /\ lk' = [lk EXCEPT !.stack = Below, !.ret = v,
                        !.pc = IF Below = <<>> THEN "done" ELSE "ret"]
    /\ verrno' = err

\* root = ent->ino, the loop goes on with the rest of the path
LkOn(e, rest, err) ==
    /\ lk' = [lk EXCEPT !.pc = "run",
                        !.stack[Len(lk.stack)] =
                            [Top EXCEPT !.root = ent[e].ino, !.path = rest, !.acc = e]]
    /\ verrno' = err

\* vfs_s_resolve_symlink calls find_entry for the target with one hop less;
\* fp is what vfs_s_fullpath of the link's directory gave.  A call with the
\* arguments of a call in progress never returns: the cache does not change
\* and the lookup is deterministic, so it repeats without end.
LkCall(fp, linkname, rest, follow) ==
    /\ lk' = [lk EXCEPT
                !.stack = Append(Below, [Top EXCEPT !.path = rest])
                          \o <<Frame(sup[1].root,
                                     IF fp.ok THEN fp.path \o linkname ELSE linkname,
                                     follow - 1)>>,
                !.pc = IF \E k \in DOMAIN lk.stack :
                              lk.stack[k].call =
                                  <<sup[1].root,
                                    IF fp.ok THEN fp.path \o linkname ELSE linkname,
                                    follow - 1>>
                       THEN "diverged" ELSE "run"]
    /\ verrno' = fp.m.verrno

\* vfs_s_resolve_symlink without the test of the hop budget (a variant the
\* properties must tell from the code)
LkResolveNoBudget(e, rest, follow) ==
    IF follow = LINK_NO_FOLLOW THEN LkOn(e, rest, verrno)
    ELSE IF ino[ent[e].ino].mode /= "lnk" THEN LkOn(e, rest, verrno)
    ELSE LkCall(Fullpath(Mach(OkIn), ent[e].dir), ino[ent[e].ino].linkname,
                rest, follow)

\* vfs_s_resolve_symlink for the entry e of the segment
LkResolve(e, rest, follow) ==
    IF follow = LINK_NO_FOLLOW THEN LkOn(e, rest, verrno)
    ELSE IF follow = 0 THEN LkRet(NULL, "ELOOP")
    ELSE IF ino[ent[e].ino].mode /= "lnk" THEN LkOn(e, rest, verrno)
    ELSE IF ino[ent[e].ino].linkname = NoLinkname THEN LkRet(NULL, "EFAULT")
    ELSE IF Head(ino[ent[e].ino].linkname) /= "/"
    THEN LkCall(Fullpath(Mach(OkIn), ent[e].dir), ino[ent[e].ino].linkname,
                rest, follow)
    ELSE LkCall([m |-> Mach(OkIn), ok |-> FALSE, path |-> <<>>],
                ino[ent[e].ino].linkname, rest, follow)

\* one turn of the loop of vfs_s_find_entry_tree for the segment Head(p)
LkSegment(e, p) ==
    IF e = NULL THEN LkRet(NULL, "ENOENT")
    ELSE LkResolve(e, Tail(p), IF Tail(p) /= <<>> THEN LINK_FOLLOW ELSE Top.follow)

\* vfs_s_find_entry_tree, the head of the loop
LkStep ==
    /\ lk.pc = "run"
    /\ IF StripSep(Top.path) = <<>> THEN LkRet(Top.acc, verrno)
       ELSE LkSegment(Lookup(Mach(OkIn), Top.root, <<Head(StripSep(Top.path))>>),
                      StripSep(Top.path))
    /\ LkKeep

\* vfs_s_find_entry_tree gets the entry vfs_s_resolve_symlink returns
LkReturn ==
    /\ lk.pc = "ret"
    /\ IF lk.ret = NULL THEN LkRet(NULL, verrno)
       ELSE LkOn(lk.ret, Top.path, verrno)
    /\ LkKeep

LookupPaths == {<<"a">>, <<"b">>, <<"a", "x">>, <<"d", "x">>}

LookupNext ==
    \/ \E path \in LookupPaths, follow \in {LINK_NO_FOLLOW} \cup 1..LINK_FOLLOW :
          LkStart(path, follow)
    \/ LkStep
    \/ LkReturn

LookupSpec == LookupInit /\ [][LookupNext]_vars

\* ---- links below links ----------------------------------------------------------

\* the targets of the link a of the root and of the link l of the directory d
TargetsA == {<<"d">>, <<"d", "x">>, <<"d", "l">>, <<"y">>}
TargetsL == {<<"x">>, <<"l">>, <<"/", "a">>, <<"/", "d", "x">>, <<"y">>}

\* the inodes of the archive: the root (1) holds the link a (2) and the
\* directory d (3), which holds the link l (4) and the file x (5)
FollowInodes(ta, tl) ==
    [i \in 0..MaxIno |->
        CASE i = 1 -> LinkNode("dir", NULL, <<1, 2>>, <<>>)
          [] i = 2 -> LinkNode("lnk", 1, <<>>, ta)
          [] i = 3 -> LinkNode("dir", 2, <<3, 4>>, <<>>)
          [] i = 4 -> LinkNode("lnk", 3, <<>>, tl)
          [] i = 5 -> LinkNode("reg", 4, <<>>, <<>>)
          [] OTHER -> DeadIno]

FollowEntries ==
    [e \in 0..MaxEnt |->
        CASE e = 1 -> [live |-> TRUE, name |-> <<"a">>, ino |-> 2, dir |-> 1]
          [] e = 2 -> [live |-> TRUE, name |-> <<"d">>, ino |-> 3, dir |-> 1]
          [] e = 3 -> [live |-> TRUE, name |-> <<"l">>, ino |-> 4, dir |-> 3]
          [] e = 4 -> [live |-> TRUE, name |-> <<"x">>, ino |-> 5, dir |-> 3]
          [] OTHER -> DeadEnt]

FollowInit ==
    /\ cls = [remote |-> FALSE, file_store |-> FALSE, linear |-> FALSE,
              fh_open |-> FALSE, rootlink |-> 1, write |-> TRUE]
    /\ \E ta \in TargetsA, tl \in TargetsL : ino = FollowInodes(ta, tl)
    /\ ent = FollowEntries
    /\ sup = [s \in 0..MaxSup |->
                 IF s = 1 THEN [DeadSup EXCEPT !.live = TRUE, !.root = 1,
                                               !.ino_usage = 5, !.stamp = TRUE,
                                               !.name = Archive]
                 ELSE DeadSup]
    /\ supers = <<1>>
    /\ flush = FALSE
    /\ verrno = "0"
    /\ fhs = <<>>
    /\ dhs = <<>>
    /\ now = 0
    /\ fault = "none"
    /\ last = NoLast
    /\ lk = NoLk

FollowPaths == {<<"a">>, <<"a", "l">>, <<"a", "x">>, <<"d", "l">>, <<"d", "x">>}

FollowNext ==
    \/ \E p \in FollowPaths : StatOf(p)
    \/ \E p \in FollowPaths : Lstat(p)
    \/ \E p \in FollowPaths : Readlink(p)

FollowSpec == FollowInit /\ [][FollowNext]_vars

\* ---- properties ------------------------------------------------------------------

\* the open handles on inode i
HandlesOn(i) ==
    Cardinality({k \in DOMAIN fhs : fhs[k].ino = i})
    + Cardinality({k \in DOMAIN dhs : dhs[k].dir = i})

HandleInodes == {fhs[k].ino : k \in DOMAIN fhs} \cup {dhs[k].dir : k \in DOMAIN dhs}

\* C1: in every reachable state, for every superblock, ino_usage is the
\* number of its inodes made by vfs_s_new_inode and not yet destroyed by
\* vfs_s_free_inode.
C1_InoUsageCountsLiveInodes ==
    \A s \in SupIds :
        sup[s].live =>
            sup[s].ino_usage = Cardinality({i \in InoIds : ino[i].live /\ ino[i].super = s})

\* C2: no inode is destroyed while an open file handle or an open directory
\* handle refers to it: the inode of every handle is a live inode.
C2_HandleInodesLive == \A i \in HandleInodes : ino[i].live

\* C3: opendir followed by closedir leaves the directory's nlink unchanged,
\* for every directory opendir can resolve (the root made by invalidate, of
\* nlink 0, too): after the pair the inode is live and has the nlink it had.
C3_OpendirClosedirKeepsNlink ==
    \A p \in DirPaths :
        LET r == OpendirOp(Mach(OkIn), p) IN
        (fault = "none" /\ r.dir /= NULL /\ ino[r.dir].live /\ r.m.fault = "none")
            => /\ ClosedirOp(r.m, r.dir).ino[r.dir].live
               /\ ClosedirOp(r.m, r.dir).ino[r.dir].nlink = ino[r.dir].nlink

C7_HandlesOnLiveSuper ==
    \A i \in HandleInodes : ino[i].live /\ sup[ino[i].super].live

\* C8: in every reachable state, for every live inode, nlink is the number of
\* entries attached to a directory that refer to it plus the number of open
\* handles on it (the reference a class keeps on its root apart).
C8_NlinkCountsEntriesAndHandles ==
    \A i \in InoIds :
        (ino[i].live /\ \A s \in SupIds : sup[s].root /= i)
            => ino[i].nlink =
                   Cardinality({e \in EntIds : ent[e].live /\ ent[e].ino = i
                                               /\ ent[e].dir /= NULL})
                   + HandlesOn(i)

\* C5: every path lookup terminates for every finite configuration of
\* symbolic links, also when a link's target passes through a symbolic link
\* as an intermediate component.
C5_LookupTerminates == lk.pc /= "diverged"

RECURSIVE MoreLinks(_, _)
\* the entry e of the root starts a chain of more than k symbolic links,
\* each naming the next in the root
MoreLinks(e, k) ==
    /\ e /= NULL
    /\ ino[ent[e].ino].mode = "lnk"
    /\ \/ k = 0
       \/ /\ Len(StripSep(ino[ent[e].ino].linkname)) = 1
          /\ MoreLinks(Lookup(Mach(OkIn), sup[1].root,
                              StripSep(ino[ent[e].ino].linkname)),
                       k - 1)

\* the lookup was of one name with a positive hop budget, and the name
\* starts a chain of more links than the budget
LongChain ==
    /\ lk.pc = "done"
    /\ lk.follow0 > 0
    /\ Len(lk.path0) = 1
    /\ MoreLinks(Lookup(Mach(OkIn), sup[1].root, lk.path0), lk.follow0)

\* C6: resolving a path whose final component starts a chain of more than
\* `follow` symbolic links, with a positive hop budget `follow`, returns NULL
\* and leaves ELOOP in verrno.
C6_LongChainIsELOOP == LongChain => (lk.ret = NULL /\ verrno = "ELOOP")

C6_Witness == LongChain /\ lk.ret = NULL /\ verrno = "ELOOP" /\ lk.follow0 = LINK_FOLLOW

\* the calls of vfs_s_dir_uptodate the last operation made, each as the code
\* prescribes: with the flag set the answer is 0 and the flag is cleared,
\* without it the answer is whether now is before the timestamp and the flag
\* stays clear; each call finds the flag as the one before left it
UptodateTrace ==
    /\ \A k \in DOMAIN last.upt :
          /\ last.upt[k].flush => (~last.upt[k].res /\ ~last.upt[k].after)
          /\ ~last.upt[k].flush =>
                /\ last.upt[k].res = (last.upt[k].now < last.upt[k].ts)
                /\ ~last.upt[k].after
          /\ last.upt[k].flush = IF k = 1 THEN last.flush0 ELSE last.upt[k - 1].after
    /\ (last.upt /= <<>> /\ fault = "none") => flush = last.upt[Len(last.upt)].after

\* C9: the flush flag is one-shot: once setctl FLUSH has set it, the first
\* call of vfs_s_dir_uptodate answers 0 and clears it in the same step, and
\* every later call decides by the timestamp alone.
C9_FlushIsOneShot ==
    /\ UptodateTrace
    /\ [Mach(OkIn) EXCEPT !.flush = TRUE].flush
    /\ \A i \in InoIds :
          /\ flush => /\ ~DirUptodate(Mach(OkIn), i).ok
                      /\ ~DirUptodate(Mach(OkIn), i).m.flush
          /\ ~flush => /\ DirUptodate(Mach(OkIn), i).ok = (now < ino[i].timestamp)
                       /\ ~DirUptodate(Mach(OkIn), i).m.flush

C9_Witness ==
    /\ fault = "none"
    /\ last.upt /= <<>>
    /\ last.flush0
    /\ last.upt[1].flush /\ ~last.upt[1].res
    /\ last.upt[1].now < last.upt[1].ts
    /\ ~flush

\* C10: in a remote class, with the flush flag set by setctl FLUSH, the next
\* opendir of any directory, cached or not, calls dir_load for it, and the
\* flag is clear when the opendir returns.
C10_FlushThenOpendirLoads ==
    \A p \in RemoteDirs, in \in Inputs :
        LET r == OpendirOp(Mach(in), p) IN
        (fault = "none" /\ flush /\ r.m.fault = "none" /\ ~r.m.oom)
            => /\ \E k \in DOMAIN r.m.loads : r.m.loads[k] = p
               /\ ~r.m.flush

\* the entries of the flat root of superblock s, in machine state m, that
\* are named p
Cached(m, s, p) ==
    {k \in DOMAIN m.ino[m.sup[s].root].subdir :
        m.ent[m.ino[m.sup[s].root].subdir[k]].name = p}

\* the directory p is in the cache of the first superblock and has expired
Expired(p) ==
    /\ fault = "none" /\ ~flush
    /\ supers /= <<>>
    /\ ino[sup[supers[1]].root].live
    /\ Lookup(Mach(OkIn), sup[supers[1]].root, p) /= NULL
    /\ now >= ino[ent[Lookup(Mach(OkIn), sup[supers[1]].root, p)].ino].timestamp

\* the inode of the cached directory p
CachedIno(p) == ent[Lookup(Mach(OkIn), sup[supers[1]].root, p)].ino

\* C11 as stated: in a remote class, a directory lookup that finds a cached
\* entry with now >= its expiry calls dir_load again for the path, removes
\* the previous entry from the flat root and frees it and its inode.
C11_ExpiredIsReloadedAndFreed ==
    \A p \in RemoteDirs, in \in Inputs :
        LET r == InodeFromPath(Mach(in), p, {"FL_DIR", "FL_FOLLOW"}) IN
        (Expired(p) /\ r.m.fault = "none" /\ ~r.m.oom)
            => /\ \E k \in DOMAIN r.m.loads : r.m.loads[k] = p
               /\ \A k \in Cached(r.m, supers[1], p) :
                     r.m.ent[r.m.ino[r.m.sup[supers[1]].root].subdir[k]].ino
                         /= CachedIno(p)
               /\ ~r.m.ino[CachedIno(p)].live

\* C11, amended: ... calls dir_load again for the path and removes the
\* previous entry from the flat root (which then holds at most one entry of
\* that name, the new one) and frees it; its inode is freed unless a handle
\* is open on it: then the inode loses the entry's reference and its
\* named-by pointer and stays.
C11_ExpiredIsReloaded ==
    \A p \in RemoteDirs, in \in Inputs :
        LET r == InodeFromPath(Mach(in), p, {"FL_DIR", "FL_FOLLOW"}) IN
        (Expired(p) /\ r.m.fault = "none" /\ ~r.m.oom)
            => /\ \E k \in DOMAIN r.m.loads : r.m.loads[k] = p
               /\ Cardinality(Cached(r.m, supers[1], p)) <= 1
               /\ \A k \in Cached(r.m, supers[1], p) :
                     r.m.ent[r.m.ino[r.m.sup[supers[1]].root].subdir[k]].ino
                         /= CachedIno(p)
               /\ IF HandlesOn(CachedIno(p)) = 0
                  THEN ~r.m.ino[CachedIno(p)].live
                  ELSE /\ r.m.ino[CachedIno(p)].live
                       /\ r.m.ino[CachedIno(p)].ent = NULL
                       /\ r.m.ino[CachedIno(p)].nlink = ino[CachedIno(p)].nlink - 1

\* an expired directory was reloaded while a handle was open on it: the
\* handle's inode has lost its entry
C11_Witness ==
    /\ fault = "none"
    /\ last.upt /= <<>>
    /\ ~last.upt[1].flush /\ ~last.upt[1].res
    /\ last.upt[1].now >= last.upt[1].ts
    /\ \E k \in DOMAIN dhs : ino[dhs[k].dir].live /\ ino[dhs[k].dir].ent = NULL

\* the calls of the hook in the trace `calls` of an operation
CallsOf(calls, hook) == SelectSeq(calls, LAMBDA c : c.hook = hook)

\* C12: closing a handle whose changed flag is set, in a class with
\* file_store, calls file_store exactly once, with the inode's localname, and
\* then invalidates the superblock; also when another handle's close has
\* removed the file's entry while the handle was open.
C12_CloseStoresChangedFile ==
    \A k \in DOMAIN fhs, in \in CloseInputs :
        LET r == CloseOp(Mach(in), fhs[k]) IN
        (fault = "none" /\ fhs[k].changed /\ cls.file_store
         /\ r.m.fault = "none" /\ ~r.m.uaf /\ ~r.m.oom)
            => /\ Len(CallsOf(r.m.calls, "file_store")) = 1
               /\ CallsOf(r.m.calls, "file_store")[1].arg.localname
                      = ino[fhs[k].ino].localname

RECURSIVE Under(_)
\* the inodes of the tree below (and with) inode i
Under(i) ==
    {i} \cup UNION {Under(ent[ino[i].subdir[k]].ino) : k \in DOMAIN ino[i].subdir}

\* the superblocks of the list whose tree is intact (no freed memory in it)
Sound(s) ==
    /\ fault = "none"
    /\ s \in {supers[k] : k \in DOMAIN supers}
    /\ sup[s].live
    /\ \A i \in Under(sup[s].root) : ino[i].live

\* vfs_s_invalidate with want_stale set changes nothing
StaleKept(s) ==
    sup[s].want_stale =>
        /\ Invalidate(Mach(OkIn), s).ino = ino
        /\ Invalidate(Mach(OkIn), s).ent = ent
        /\ Invalidate(Mach(OkIn), s).sup = sup

\* vfs_s_invalidate with want_stale clear installs a new empty directory
NewRoot(s) ==
    LET r == Invalidate(Mach(OkIn), s) IN
    (~sup[s].want_stale /\ ~r.oom) =>
        /\ ~ino[r.sup[s].root].live
        /\ r.ino[r.sup[s].root].live
        /\ r.ino[r.sup[s].root].mode = "dir"
        /\ r.ino[r.sup[s].root].subdir = <<>>

\* C13 as stated: vfs_s_invalidate with want_stale set leaves the root, the
\* entry tree and ino_usage unchanged; with want_stale clear, afterwards the
\* root is a newly made directory inode with no children and every inode of
\* the old tree that no handle holds has been destroyed.
C13_InvalidateDestroysUnheld ==
    \A s \in SupIds :
        Sound(s) =>
            /\ StaleKept(s)
            /\ NewRoot(s)
            /\ (~sup[s].want_stale /\ ~Invalidate(Mach(OkIn), s).oom) =>
                  \A i \in Under(sup[s].root) :
                      HandlesOn(i) = 0 => ~Invalidate(Mach(OkIn), s).ino[i].live

\* C13, amended: ... and every inode of the old tree has been destroyed that
\* no handle holds and that is not below a directory a handle holds (a held
\* directory keeps its children).
C13_InvalidateDestroysUnheldTrees ==
    \A s \in SupIds :
        Sound(s) =>
            /\ StaleKept(s)
            /\ NewRoot(s)
            /\ (~sup[s].want_stale /\ ~Invalidate(Mach(OkIn), s).oom) =>
                  \A i \in Under(sup[s].root) :
                      (\A h \in Under(sup[s].root) : i \in Under(h) => HandlesOn(h) = 0)
                          => ~Invalidate(Mach(OkIn), s).ino[i].live

\* an invalidate has replaced the tree while a handle held a directory with
\* children: the directory has lost its entry and kept its children
C13_Witness ==
    /\ fault = "none"
    /\ \E k \in DOMAIN dhs :
          /\ ino[dhs[k].dir].live
          /\ ino[dhs[k].dir].ent = NULL
          /\ ino[dhs[k].dir].subdir /= <<>>
          /\ sup[ino[dhs[k].dir].super].live
          /\ sup[ino[dhs[k].dir].super].root /= dhs[k].dir
          /\ ino[sup[ino[dhs[k].dir].super].root].live
          /\ ino[sup[ino[dhs[k].dir].super].root].subdir = <<>>

\* the file handles open on superblock s
FileHandlesOn(s) == {k \in DOMAIN fhs : ino[fhs[k].ino].super = s}

\* C14: in every reachable state, a superblock of the class list carries an
\* idle stamp if and only if its fd_usage is 0, and its fd_usage is the number
\* of file handles open on it.
C14_StampIffNoHandles ==
    \A k \in DOMAIN supers :
        (fault = "none" /\ sup[supers[k]].live
         /\ \A h \in DOMAIN fhs : ino[fhs[h].ino].live) =>
            /\ sup[supers[k]].stamp <=> (sup[supers[k]].fd_usage = 0)
            /\ sup[supers[k]].fd_usage = Cardinality(FileHandlesOn(supers[k]))

\* the last handle of an open-to-close run has gone and the superblock is
\* stamped again
C14_Witness ==
    /\ fault = "none"
    /\ last.run = "closed"
    /\ fhs = <<>>
    /\ \E k \in DOMAIN supers :
          /\ sup[supers[k]].live
          /\ sup[supers[k]].stamp
          /\ sup[supers[k]].fd_usage = 0

\* the superblocks of the list that belong to archive `name`
Listed(name) == {k \in DOMAIN supers : sup[supers[k]].name = name}

Intact(k) ==
    /\ fault = "none"
    /\ ino[fhs[k].ino].live
    /\ sup[ino[fhs[k].ino].super].live

\* C17: on a handle in PreOpen, read calls linear_start at the handle's pos;
\* if linear_start reports success and the state is not Open afterwards, read
\* ends in the fatal assertion and delegates neither to linear_read nor to the
\* native descriptor.
C17_ReadAssertsLinearStart ==
    \A k \in DOMAIN fhs : \A in \in ReadInputs(k) :
        LET r == ReadOp(Mach(in), fhs[k]) IN
        (Intact(k) /\ fhs[k].linear = "preopen") =>
            /\ CallsOf(r.m.calls, "linear_start")
                   = <<[hook |-> "linear_start", arg |-> fhs[k].pos]>>
            /\ (in.lstart /= "fail" /\ r.h.linear /= "open") =>
                   /\ r.m.fault = "die"
                   /\ CallsOf(r.m.calls, "linear_read") = <<>>
                   /\ CallsOf(r.m.calls, "read") = <<>>

\* the calls of linear_close an operation made
LinearCloses(m) == Len(CallsOf(m.calls, "linear_close"))

\* a first read of handle k, then its close
ReadThenClose(k, in) ==
    CloseOp([ReadOp(Mach(in), fhs[k]).m EXCEPT !.calls = <<>>],
            ReadOp(Mach(in), fhs[k]).h).m

\* C18: close calls linear_close exactly once if the handle is in state Open
\* and not at all otherwise, read, write and lseek never call it, and a
\* linear_start that reported success is matched by one linear_close when the
\* handle is closed.
C18_LinearCloseMatchesStart ==
    \A k \in DOMAIN fhs :
        Intact(k) =>
            /\ \A in \in CloseInputs :
                  LinearCloses(CloseOp(Mach(in), fhs[k]).m)
                      = IF fhs[k].linear = "open" THEN 1 ELSE 0
            /\ \A in \in ReadInputs(k) : LinearCloses(ReadOp(Mach(in), fhs[k]).m) = 0
            /\ LinearCloses(WriteOp(Mach(OkIn), fhs[k]).m) = 0
            /\ \A in \in ReadInputs(k) :
                  (fhs[k].linear = "preopen"
                   /\ ReadOp(Mach(in), fhs[k]).m.fault = "none")
                      => LinearCloses(ReadThenClose(k, in))
                             = IF in.lstart = "fail" THEN 0 ELSE 1

\* C19: write on a handle whose linear state is not Off ends in the fatal
\* assertion, without a native write and with the changed flag as it was;
\* write on an Off handle sets changed, then writes to the native descriptor.
C19_NoWriteToLinear ==
    \A k \in DOMAIN fhs :
        LET r == WriteOp(Mach(OkIn), fhs[k]) IN
        Intact(k) =>
            /\ fhs[k].linear /= "off" =>
                  /\ r.m.fault = "die"
                  /\ r.h.changed = fhs[k].changed
                  /\ CallsOf(r.m.calls, "write") = <<>>
            /\ fhs[k].linear = "off" =>
                  /\ r.h.changed
                  /\ fhs[k].fd => /\ r.m.fault = "none"
                                  /\ Len(CallsOf(r.m.calls, "write")) = 1

\* a write has ended in the fatal assertion with linear handles only
C19_Witness ==
    /\ fault = "die"
    /\ last.crashed = "write"
    /\ fhs /= <<>>
    /\ \A k \in DOMAIN fhs : fhs[k].linear /= "off"

\* C20: lseek ends in the fatal assertion exactly on a handle in state Open
\* (never on one in Off or PreOpen), only a read of a PreOpen handle makes a
\* handle Open, and read, write and lseek leave an Open handle Open.
C20_NoSeekAfterLinearRead ==
    \A k \in DOMAIN fhs :
        Intact(k) =>
            /\ \A offset \in {0, 1}, whence \in {"SEEK_SET", "SEEK_CUR", "SEEK_END"} :
                  /\ fhs[k].linear = "open"
                        => LseekOp(Mach(OkIn), fhs[k], offset, whence).m.fault = "die"
                  /\ fhs[k].linear \in {"off", "preopen"}
                        => LseekOp(Mach(OkIn), fhs[k], offset, whence).m.fault = "none"
                  /\ LseekOp(Mach(OkIn), fhs[k], offset, whence).h.linear = fhs[k].linear
            /\ WriteOp(Mach(OkIn), fhs[k]).h.linear = fhs[k].linear
            /\ \A in \in ReadInputs(k) :
                  /\ fhs[k].linear = "open" => ReadOp(Mach(in), fhs[k]).h.linear = "open"
                  /\ fhs[k].linear = "off" => ReadOp(Mach(in), fhs[k]).h.linear = "off"

\* an lseek has ended in the fatal assertion on a handle a read made Open
C20_Witness ==
    /\ fault = "die"
    /\ last.crashed = "lseek"
    /\ \E k \in DOMAIN fhs : fhs[k].linear = "open"

\* the archive is open and the last call left no crash
Listening == fault = "none" /\ supers /= <<>>

\* C21: a failing open leaves every nlink and fd_usage as before the call and
\* leaves no entry and no inode the call made.
C21_FailedOpenReleases ==
    \A path \in FilePaths, flags \in {{}, {"O_CREAT"}}, in \in OpenInputs :
        LET r == OpenOp(Mach(in), path, flags) IN
        (Listening /\ ~r.ok /\ r.m.fault = "none" /\ ~r.m.uaf /\ ~r.m.oom) =>
            /\ \A i \in InoIds : r.m.ino[i].live = ino[i].live
            /\ \A i \in InoIds : r.m.ino[i].nlink = ino[i].nlink
            /\ \A e \in EntIds : r.m.ent[e].live = ent[e].live
            /\ \A s \in SupIds : r.m.sup[s].fd_usage = sup[s].fd_usage

\* C22: a failing open has stored the code of its failure in verrno: after
\* the call verrno is set, and when the call failed at the creation of the
\* temp file (it succeeds with the same arguments when the temp file can be
\* made) verrno is the host's errno.
C22_FailedOpenSetsVerrno ==
    \A path \in FilePaths, flags \in {{}, {"O_CREAT"}}, in \in OpenInputs :
        LET r == OpenOp([Mach(in) EXCEPT !.verrno = "0"], path, flags) IN
        (Listening /\ ~r.ok /\ r.m.fault = "none" /\ ~r.m.uaf /\ ~r.m.oom) =>
            /\ r.m.verrno /= "0"
            /\ (in.tmp = "fail" /\ OpenOp(Mach(OkIn), path, flags).ok)
                   => r.m.verrno = "errno"

\* C26: an open that makes a handle not in PreOpen has called fh_open once
\* if the class has one, also when linear mode was asked for in a class
\* without linear_start; an open whose fh_open fails returns null.
C26_OpenCallsFhOpen ==
    \A path \in FilePaths, flags \in {{}, {"O_LINEAR"}, {"O_CREAT"}}, in \in OpenInputs :
        LET r == OpenOp(Mach(in), path, flags) IN
        (fault = "none" /\ cls.fh_open /\ r.m.fault = "none" /\ ~r.m.oom) =>
            /\ (r.ok /\ r.fh.linear /= "preopen")
                   => Len(CallsOf(r.m.calls, "fh_open")) = 1
            /\ (in.fhopen = "fail" /\ CallsOf(r.m.calls, "fh_open") /= <<>>) => ~r.ok

\* in machine state m no inode that is not a directory has children
LeavesEmpty(m) ==
    \A i \in InoIds : (m.ino[i].live /\ m.ino[i].mode /= "dir") => m.ino[i].subdir = <<>>

\* a path below the regular file d/f
BelowFile == <<"d", "f", "x">>

\* C24: no inode that is not a directory has children, in every reachable
\* state and after an open with O_CREAT or a lookup with FL_MKFILE or
\* FL_MKDIR of a path below an existing regular file.
C24_OnlyDirsHaveChildren ==
    Listening =>
        /\ LeavesEmpty(Mach(OkIn))
        /\ LET r == OpenOp(Mach(OkIn), BelowFile, {"O_CREAT"}) IN
              (r.m.fault = "none" /\ ~r.m.uaf /\ ~r.m.oom) => LeavesEmpty(r.m)
        /\ \A mk \in {"FL_MKFILE", "FL_MKDIR"} :
              LET r == FindInode(Mach(OkIn), supers[1], BelowFile, LINK_FOLLOW, {mk}) IN
              (r.m.fault = "none" /\ ~r.m.uaf /\ ~r.m.oom) => LeavesEmpty(r.m)

\* C25: when an inode is named by two entries and its back-pointer is the
\* second, free_entry of the first leaves the back-pointer at the second and
\* lowers nlink by one.
C25_FreeEntryKeepsOtherName ==
    \A e1 \in EntIds :
        LET i == ent[e1].ino
            n == NewEntry(Mach(OkIn), <<"h">>, i)
            two == InsertEntry(n.m, ent[e1].dir, n.ent)
            r == FreeEntry(two, e1)
        IN (Listening /\ ent[e1].live /\ ino[i].live /\ ino[i].mode = "reg"
            /\ ino[ent[e1].dir].live /\ ~n.m.oom /\ n.ent /= NULL
            /\ r.fault = "none" /\ ~r.uaf) =>
               /\ two.ino[i].ent = n.ent
               /\ r.ino[i].ent = n.ent
               /\ r.ino[i].nlink = two.ino[i].nlink - 1

\* the file created, written and closed: what a later open and read give
WrittenThenRead(path, b) ==
    LET o == OpenOp(Mach(OkIn), path, {"O_CREAT"})
        w == WriteOp([o.m EXCEPT !.in.bytes = b], o.fh)
        c == CloseOp(w.m, w.h)
        o2 == OpenOp(c.m, path, {})
    IN [made |-> o.ok /\ o.fh.changed /\ c.m.fault = "none" /\ ~c.m.uaf /\ ~c.m.oom,
        ok |-> o2.ok,
        buf |-> IF o2.ok THEN ReadBuf(ReadOp(o2.m, o2.fh).m, o2.fh) ELSE <<>>]

\* C23: in a writable class that is not remote, open with O_CREAT of a
\* missing name, write(b), close, then open of the same name and read gives
\* exactly b, with or without file_store.
C23_WrittenFileReadsBack ==
    \A path \in FilePaths, b \in Bytes :
        (Listening /\ ~cls.remote /\ fhs = <<>> /\ WrittenThenRead(path, b).made) =>
            /\ WrittenThenRead(path, b).ok
            /\ WrittenThenRead(path, b).buf = b

\* the lookup of a path from the root of the archive with hop budget f
TreeLookup(path, f) ==
    FindEntryTree(Mach(OkIn), sup[supers[1]].root, path, f, {}, NULL).ent

\* C27: a leading component that is a link to a directory is followed
\* whatever `follow` the caller passed, and the last component is followed
\* only as the caller says: with a a link to the directory d and l a link in
\* d, the lookup of a/l is the lookup of d/l for every `follow`, lstat and
\* readlink of a/l give l's own inode and stat gives the inode of l's target.
C27_LeadingLinksFollowed ==
    (fault = "none" /\ TreeLookup(<<"a">>, LINK_FOLLOW) = Lookup(Mach(OkIn), 1, <<"d">>)) =>
        /\ \A f \in {LINK_NO_FOLLOW, 1, LINK_FOLLOW} :
              TreeLookup(<<"a", "l">>, f) = TreeLookup(<<"d", "l">>, f)
        /\ TreeLookup(<<"a", "l">>, LINK_NO_FOLLOW) = Lookup(Mach(OkIn), 3, <<"l">>)
        /\ InodeFromPath(Mach(OkIn), <<"a", "l">>, {}).ino = 4
        /\ ReadlinkOp(Mach(OkIn), <<"a", "l">>).ino = 4
        /\ ReadlinkOp(Mach(OkIn), <<"a", "l">>).buf = ino[4].linkname
        /\ ino[4].linkname \in {<<"x">>, <<"/", "d", "x">>}
              => InodeFromPath(Mach(OkIn), <<"a", "l">>, {"FL_FOLLOW"}).ino = 5

\* an lstat of a/l, with a a link to d, has found l's own inode
C27_Witness ==
    /\ fault = "none"
    /\ ino[2].linkname = <<"d">>
    /\ last.run = "lstat"
    /\ last.calls = <<[hook |-> "lstat", arg |-> <<"a", "l">>]>>
    /\ last.ino = 4

\* in machine state m the flat root of superblock s holds no two entries of
\* one name
FlatRootUnique(m, s) ==
    \A j, k \in DOMAIN m.ino[m.sup[s].root].subdir :
        m.ent[m.ino[m.sup[s].root].subdir[j]].name
            = m.ent[m.ino[m.sup[s].root].subdir[k]].name => j = k

\* the remote server is listed and its flat root is there
Served ==
    /\ fault = "none"
    /\ supers /= <<>>
    /\ sup[supers[1]].live
    /\ ino[sup[supers[1]].root].live

\* the directory paths looked up in the flat root
FlatPaths == {<<>>, <<"d">>, <<"e">>}

\* C28: in a remote class the flat root never holds two entries of one name,
\* in every reachable state and after a further directory lookup of any
\* path, with dir_load succeeding or failing.
C28_FlatRootNamesUnique ==
    Served =>
        /\ FlatRootUnique(Mach(OkIn), supers[1])
        /\ \A p \in FlatPaths, in \in Inputs :
              LET r == InodeFromPath(Mach(in), p, {"FL_DIR", "FL_FOLLOW"}) IN
              (r.m.fault = "none" /\ ~r.m.oom) => FlatRootUnique(r.m, supers[1])
        /\ FlatRootUnique(Invalidate(Mach(OkIn), supers[1]), supers[1])

\* a cached directory was found stale and loaded again, and the flat root
\* holds one entry
C28_Witness ==
    /\ Served
    /\ last.upt /= <<>>
    /\ ~last.upt[1].res
    /\ Len(ino[sup[supers[1]].root].subdir) = 1

\* the directory p is in the cache of the first superblock and is fresh
Fresh(p) ==
    /\ Served /\ ~flush
    /\ Lookup(Mach(OkIn), sup[supers[1]].root, p) /= NULL
    /\ ino[CachedIno(p)].live
    /\ now < ino[CachedIno(p)].timestamp

\* C29: in a remote class a directory lookup of a cached path whose expiry
\* is later than now, with the flush flag clear, returns the cached entry's
\* inode without a call of dir_load and changes no inode, no entry and no
\* superblock (child lists, nlink and ino_usage stay).
C29_FreshLookupChangesNothing ==
    \A p \in RemoteDirs, in \in Inputs :
        LET r == InodeFromPath(Mach(in), p, {"FL_DIR", "FL_FOLLOW"}) IN
        Fresh(p) =>
            /\ r.ino = CachedIno(p)
            /\ r.m.loads = <<>>
            /\ r.m.ino = ino
            /\ r.m.ent = ent
            /\ r.m.sup = sup
            /\ r.m.fault = "none" /\ ~r.m.uaf

\* a lookup has found its directory fresh in the cache
C29_Witness ==
    /\ Served
    /\ last.upt /= <<>>
    /\ ~last.upt[1].flush
    /\ last.upt[1].res
    /\ \E p \in RemoteDirs : Fresh(p)

\* C30: when vfs_s_retrieve_file returns -1 the inode has no localname, the
\* local file the call made has been unlinked and linear_close was called
\* once if linear_start had succeeded and not at all otherwise; when it
\* returns 0 the inode has its localname and linear_close was called once.
C30_RetrieveCleansUp ==
    \A i \in InoIds, in \in RetrieveInputs :
        LET r == RetrieveFile(Mach(in), i) IN
        (fault = "none" /\ ino[i].live /\ ino[i].mode = "reg"
         /\ r.m.fault = "none" /\ ~r.m.uaf) =>
            /\ r.rc \in {0, -1}
            /\ r.rc = -1 =>
                  /\ ~r.m.ino[i].localname
                  /\ Len(CallsOf(r.m.calls, "unlink")) = IF in.tmp = "ok" THEN 1 ELSE 0
                  /\ LinearCloses(r.m)
                         = IF in.tmp = "ok" /\ in.lstart /= "fail" THEN 1 ELSE 0
            /\ r.rc = 0 =>
                  /\ r.m.ino[i].localname
                  /\ CallsOf(r.m.calls, "unlink") = <<>>
                  /\ LinearCloses(r.m) = 1
            /\ (r.rc = 0) <=> (in.tmp = "ok" /\ in.lstart /= "fail"
                               /\ \A k \in DOMAIN in.xfer : in.xfer[k] = "data")

\* a transfer that had started was given up: it was closed and the partial
\* local copy unlinked
C30_Witness ==
    /\ fault = "none"
    /\ last.run = "retrieved"
    /\ last.rc = -1
    /\ Len(CallsOf(last.calls, "linear_read")) = 2
    /\ Len(CallsOf(last.calls, "linear_close")) = 1
    /\ Len(CallsOf(last.calls, "unlink")) = 1
    /\ ~ino[last.ino].localname

\* the path p as vfs_s_inode_from_path resolves it in the cache m
ResolvesIn(m, p) == InodeFromPath(m, p, {}).ino

\* the body of vfs_s_setctl for VFS_SETCTL_STALE_DATA: the cache afterwards
AfterSetctl(m, path, arg) ==
    LET r == InodeFromPath(m, path, {}) IN
    IF r.ino = NULL THEN r.m
    ELSE SetStale(TouchIno(r.m, r.ino), r.m.ino[r.ino].super, arg)

\* STALE_DATA set on the path q, then cleared
SetThenCleared(q) == AfterSetctl(AfterSetctl(Mach(OkIn), q, TRUE), q, FALSE)

TreePaths == {<<>>, <<"d">>, <<"d", "f">>, <<"d", "g">>}

\* C31: in an archive class with its archive open, a path that resolves to
\* an inode resolves to the same inode after STALE_DATA was set and then
\* cleared (on any directory of the archive), the superblock still being
\* in the registry.
C31_ResolvedPathStays ==
    \A p \in TreePaths, q \in DirPaths :
        (Listening /\ ~cls.remote /\ ResolvesIn(Mach(OkIn), p) /= NULL
         /\ SetThenCleared(q).supers = supers)
            => ResolvesIn(SetThenCleared(q), p) = ResolvesIn(Mach(OkIn), p)

====
